---------------------------- MODULE Spec2Model ----------------------------
(***************************************************************************)
(* The five content-generation scripts of Under-Delta-Tale-Rune-Fight-Sim: *)
(*   generate_bosses_old.py, generate_enemies.py,                          *)
(*   generate_missing_undertale_enemies.py, generate_deltarune_enemies.py, *)
(*   generate_deltarune_bosses.py.                                         *)
(* Each holds literal tables of encounter descriptors and writes one JSON  *)
(* file per record.  The model carries the tables as they are written in   *)
(* the source, the Python values and their JSON encoding, the file system  *)
(* the scripts write to, and one run of one script as a state machine.     *)
(*                                                                         *)
(* Strings are TLA+ strings; their characters are read with SubSeq.  The   *)
(* one non-ASCII character of the tables, U+221E (the infinity sign in     *)
(* Asriel's checkText), is written "~", which occurs nowhere else.         *)
(***************************************************************************)
EXTENDS Integers, Sequences, FiniteSets, TLC

VARIABLES
  script,   \* which of the five scripts this process runs
  cwd,      \* the working directory the process was started in
  environ,  \* what else the process was started with: arguments, environment variables, standard input
  dirs,     \* the directories that exist (absolute paths)
  files,    \* the regular files that exist: absolute path -> content
  mem,      \* the script's module-level tables: name -> sequence of entries
  pc,       \* where the process is
  i,        \* the number of calls main()'s loops have completed in this call of main()
  runs,     \* how many times main() has returned
  fh,       \* the path of the file open for writing, or NoFile
  data,     \* the value the current call is about to serialize (json.dump's argument)
  out,      \* the lines printed so far by this process
  written,  \* history: the paths json.dump has completed on in this call of main()
  files0,   \* history: the files that existed when the first process started
  snapshot, \* history: the files as they were when main() first returned
  err       \* the exception that ended the process, or NoError

vars == <<script, cwd, environ, dirs, files, mem, pc, i, runs, fh, data, out, written, files0, snapshot, err>>

----------------------------------------------------------------------------
(* Characters and strings *)

CharAt(s, k) == SubSeq(s, k, k)

UPPERCASE == "ABCDEFGHIJKLMNOPQRSTUVWXYZ"
LOWERCASE == "abcdefghijklmnopqrstuvwxyz"
DIGITS == "0123456789"

IsUpper(c) == \E k \in 1..Len(UPPERCASE) : CharAt(UPPERCASE, k) = c
IsDigit(c) == \E k \in 1..Len(DIGITS) : CharAt(DIGITS, k) = c

\* str.lower() on one character
LowerChar(c) ==
  IF IsUpper(c)
    THEN CharAt(LOWERCASE, CHOOSE k \in 1..Len(UPPERCASE) : CharAt(UPPERCASE, k) = c)
    ELSE c

\* str.upper() on one character
UpperChar(c) ==
  IF \E k \in 1..Len(LOWERCASE) : CharAt(LOWERCASE, k) = c
    THEN CharAt(UPPERCASE, CHOOSE k \in 1..Len(LOWERCASE) : CharAt(LOWERCASE, k) = c)
    ELSE c

\* the pieces lo..hi of a sequence of strings, joined in order
RECURSIVE Concat(_, _, _)
Concat(pieces, lo, hi) ==
  IF lo > hi THEN ""
  ELSE IF lo = hi THEN pieces[lo]
  ELSE Concat(pieces, lo, (lo + hi) \div 2) \o Concat(pieces, ((lo + hi) \div 2) + 1, hi)

\* the pieces of a sequence of strings joined in order; the sequence is evaluated once
Join(pieces) == CHOOSE r \in {Concat(p, 1, Len(p)) : p \in {pieces}} : TRUE

\* (in the string operators below the argument is bound to its value first,
\* so that it is evaluated once and not once per character)
lower(s) == CHOOSE r \in {Join([k \in 1..Len(v) |-> LowerChar(CharAt(v, k))]) : v \in {s}} : TRUE

upper(s) == CHOOSE r \in {Join([k \in 1..Len(v) |-> UpperChar(CharAt(v, k))]) : v \in {s}} : TRUE

\* str.replace(old, new) for a one-character old
replace(s, old, new) ==
  CHOOSE r \in {Join([k \in 1..Len(v) |-> IF CharAt(v, k) = old THEN new ELSE CharAt(v, k)]) : v \in {s}} : TRUE

HasChar(s, c) == \E k \in 1..Len(s) : CharAt(s, k) = c

StartsWith(s, p) == Len(s) >= Len(p) /\ SubSeq(s, 1, Len(p)) = p

\* str(n) and the {n} of an f-string, for an int
RECURSIVE NatToStr(_)
NatToStr(n) ==
  IF n < 10 THEN CharAt(DIGITS, n + 1)
  ELSE NatToStr(n \div 10) \o CharAt(DIGITS, (n % 10) + 1)

IntToStr(n) == IF n < 0 THEN "-" \o NatToStr(0 - n) ELSE NatToStr(n)

DigitValue(c) == (CHOOSE k \in 1..Len(DIGITS) : CharAt(DIGITS, k) = c) - 1

\* int(s) for a string of decimal digits with an optional sign
RECURSIVE StrToNat(_, _)
StrToNat(s, acc) ==
  IF s = "" THEN acc
  ELSE StrToNat(SubSeq(s, 2, Len(s)), acc * 10 + DigitValue(CharAt(s, 1)))

StrToInt(s) ==
  IF StartsWith(s, "-") THEN 0 - StrToNat(SubSeq(s, 2, Len(s)), 0) ELSE StrToNat(s, 0)

----------------------------------------------------------------------------
(* Python values, as the tables hold them.  A dict is a finite map from    *)
(* its string keys to values; floats are carried as a count of tenths (the *)
(* tables hold only 2.5 and 3.5).                                          *)

PyStr(s) == [t |-> "str", v |-> s]
PyInt(n) == [t |-> "int", v |-> n]
PyFloat(tenths) == [t |-> "float", v |-> tenths]
PyList(items) == [t |-> "list", v |-> items]
PyDict(map) == [t |-> "dict", v |-> map]

Keys(d) == DOMAIN d.v
Has(d, k) == k \in DOMAIN d.v
Get(d, k) == d.v[k]

\* d[k] = x on a dict: adds the key or replaces its value
SetItem(d, k, x) ==
  PyDict([key \in (DOMAIN d.v) \cup {k} |-> IF key = k THEN x ELSE d.v[key]])

----------------------------------------------------------------------------
(* json.dump(obj, f, indent=4) and json.load: the encoder dispatches on    *)
(* the Python type, writes an int as its decimal digits, a float as its    *)
(* repr, a str escaped (ensure_ascii), a list as an array and a dict as an *)
(* object; the decoder reads a number with a fraction as a float and any   *)
(* other number as an int.  Indentation is white space between tokens and  *)
(* does not change the token tree, which is what a file holds here.        *)

\* a variant of EscapeChar that writes a backslash as it is
EscapeChar_rawBackslash(c) ==
  CASE c = "\"" -> "\\\""
    [] c = "\n" -> "\\n"
    [] c = "~" -> "\\u221e"
    [] OTHER -> c

\* py_encode_basestring_ascii, one character
EscapeChar(c) ==
  CASE c = "\"" -> "\\\""
    [] c = "\\" -> "\\\\"
    [] c = "\n" -> "\\n"
    [] c = "~" -> "\\u221e"
    [] OTHER -> c

Escape(s) == CHOOSE r \in {Join([k \in 1..Len(v) |-> EscapeChar(CharAt(v, k))]) : v \in {s}} : TRUE

\* the decoder's scan of a string literal's body: a backslash that an even
\* number of backslashes precedes starts an escape, which stands for one character
BackslashesBefore(s, k) ==
  k - 1 - (CHOOSE n \in 0..(k - 1) :
             /\ \A m \in (n + 1)..(k - 1) : CharAt(s, m) = "\\"
             /\ (n = 0 \/ CharAt(s, n) # "\\"))

StartsEscape(s, k) == CharAt(s, k) = "\\" /\ BackslashesBefore(s, k) % 2 = 0

InsideEscape(s, k) ==
  \/ k > 1 /\ StartsEscape(s, k - 1)
  \/ \E n \in 2..5 : k > n /\ StartsEscape(s, k - n) /\ CharAt(s, k - n + 1) = "u"

Unescaped(s, k) ==
  IF InsideEscape(s, k) THEN ""
  ELSE IF ~StartsEscape(s, k) THEN CharAt(s, k)
  ELSE IF CharAt(s, k + 1) = "n" THEN "\n"
  ELSE IF CharAt(s, k + 1) = "u" THEN "~"
  ELSE CharAt(s, k + 1)

Unescape(s) == CHOOSE r \in {Join([k \in 1..Len(v) |-> Unescaped(v, k)]) : v \in {s}} : TRUE

\* float.__repr__ for a float with one decimal
FloatRepr(tenths) ==
  IF tenths < 0
    THEN "-" \o NatToStr((0 - tenths) \div 10) \o "." \o NatToStr((0 - tenths) % 10)
    ELSE NatToStr(tenths \div 10) \o "." \o NatToStr(tenths % 10)

RECURSIVE JsonDump(_)
JsonDump(v) ==
  CASE v.t = "str" -> [j |-> "string", lit |-> Escape(v.v)]
    [] v.t = "int" -> [j |-> "number", lit |-> IntToStr(v.v)]
    [] v.t = "float" -> [j |-> "number", lit |-> FloatRepr(v.v)]
    [] v.t = "list" -> [j |-> "array", items |-> [k \in DOMAIN v.v |-> JsonDump(v.v[k])]]
    [] v.t = "dict" -> [j |-> "object", members |-> [k \in DOMAIN v.v |-> JsonDump(v.v[k])]]

DotAt(s) == CHOOSE k \in 1..Len(s) : CharAt(s, k) = "."

\* the decoder's number rule: a literal with a fraction is a float, any other an int
ParseNumber(lit) ==
  IF HasChar(lit, ".")
    THEN IF StartsWith(lit, "-")
           THEN PyFloat(0 - (StrToNat(SubSeq(lit, 2, DotAt(lit) - 1), 0) * 10
                             + StrToNat(SubSeq(lit, DotAt(lit) + 1, Len(lit)), 0)))
           ELSE PyFloat(StrToNat(SubSeq(lit, 1, DotAt(lit) - 1), 0) * 10
                        + StrToNat(SubSeq(lit, DotAt(lit) + 1, Len(lit)), 0))
    ELSE PyInt(StrToInt(lit))

RECURSIVE JsonLoad(_)
JsonLoad(x) ==
  CASE x.j = "string" -> PyStr(Unescape(x.lit))
    [] x.j = "number" -> ParseNumber(x.lit)
    [] x.j = "array" -> PyList([k \in DOMAIN x.items |-> JsonLoad(x.items[k])])
    [] x.j = "object" -> PyDict([k \in DOMAIN x.members |-> JsonLoad(x.members[k])])

----------------------------------------------------------------------------
(* The tables, as the five scripts write them *)

\* generate_bosses_old.py: BOSSES, in insertion order (the order of BOSSES.items()).
BOSSES ==
  <<
  [id |-> "toriel", data |-> PyDict([
      name |-> PyStr("Toriel"),
      hp |-> PyInt(440),
      attack |-> PyInt(6),
      defense |-> PyInt(1),
      gold |-> PyInt(0),
      exp |-> PyInt(0),
      spareThreshold |-> PyInt(0),
      dialogue |-> PyList(<<
        PyStr("* Toriel prepares a magical attack."),
        PyStr("* Toriel is acting aloof."),
        PyStr("* Toriel is looking through you."),
        PyStr("* Smells like butterscotch pie.")>>),
      checkText |-> PyStr("ATK 6 DEF 1\n* Knows best for you."),
      sprites |-> PyDict([idle |-> PyList(<<PyStr("Battle/Characters/Toriel/spr_toriel_talk_0.png")>>)]),
      acts |-> PyList(<<
        PyDict([name |-> PyStr("Check"), effect |-> PyStr("check")]),
        PyDict([
          name |-> PyStr("Talk"),
          effect |-> PyStr("talk"),
          text |-> PyStr("* You talk to Toriel.\n* She doesn't want to listen."),
          mercyIncrease |-> PyInt(10)]),
        PyDict([name |-> PyStr("Spare"), effect |-> PyStr("spare"), text |-> PyStr("* You spared Toriel."), mercyIncrease |-> PyInt(5)])>>),
      attackPatterns |-> PyList(<<
        PyDict([
          name |-> PyStr("Fire Magic"),
          duration |-> PyInt(5000),
          waves |-> PyList(<<
            PyDict([
              time |-> PyInt(0),
              type |-> PyStr("projectiles"),
              count |-> PyInt(8),
              speed |-> PyInt(2),
              size |-> PyInt(20),
              side |-> PyStr("top")]),
            PyDict([
              time |-> PyInt(1000),
              type |-> PyStr("projectiles"),
              count |-> PyInt(8),
              speed |-> PyInt(2),
              size |-> PyInt(20),
              side |-> PyStr("bottom")]),
            PyDict([
              time |-> PyInt(2000),
              type |-> PyStr("projectiles"),
              count |-> PyInt(8),
              speed |-> PyInt(2),
              size |-> PyInt(20),
              side |-> PyStr("left")]),
            PyDict([
              time |-> PyInt(3000),
              type |-> PyStr("projectiles"),
              count |-> PyInt(8),
              speed |-> PyInt(2),
              size |-> PyInt(20),
              side |-> PyStr("right")])>>)])>>)])],
  [id |-> "papyrus", data |-> PyDict([
      name |-> PyStr("Papyrus"),
      hp |-> PyInt(680),
      attack |-> PyInt(8),
      defense |-> PyInt(2),
      gold |-> PyInt(0),
      exp |-> PyInt(0),
      spareThreshold |-> PyInt(0),
      dialogue |-> PyList(<<
        PyStr("* Papyrus is preparing a\n  non-bone attack."),
        PyStr("* Papyrus is rattling his bones."),
        PyStr("* Papyrus is cooking."),
        PyStr("* Smells like bones.")>>),
      checkText |-> PyStr("ATK 8 DEF 2\n* Likes to say 'Nyeh Heh Heh!'"),
      sprites |-> PyDict([idle |-> PyList(<<PyStr("Battle/Characters/Papyrus/spr_papyrus_0.png")>>)]),
      acts |-> PyList(<<
        PyDict([name |-> PyStr("Check"), effect |-> PyStr("check")]),
        PyDict([
          name |-> PyStr("Compliment"),
          effect |-> PyStr("compliment"),
          text |-> PyStr("* You tell Papyrus he's cool.\n* NYEH HEH HEH!!!"),
          mercyIncrease |-> PyInt(20)]),
        PyDict([
          name |-> PyStr("Flirt"),
          effect |-> PyStr("flirt"),
          text |-> PyStr("* You flirt with Papyrus.\n* His attack dropped!"),
          mercyIncrease |-> PyInt(30)])>>),
      attackPatterns |-> PyList(<<
        PyDict([
          name |-> PyStr("Bone Attack"),
          duration |-> PyInt(4500),
          waves |-> PyList(<<
            PyDict([time |-> PyInt(0), type |-> PyStr("bones"), count |-> PyInt(3), speed |-> PyInt(3), orientation |-> PyStr("horizontal")]),
            PyDict([time |-> PyInt(1000), type |-> PyStr("bones"), count |-> PyInt(3), speed |-> PyInt(3), orientation |-> PyStr("vertical")]),
            PyDict([time |-> PyInt(2000), type |-> PyStr("bones"), count |-> PyInt(4), speed |-> PyFloat(35), orientation |-> PyStr("horizontal")]),
            PyDict([time |-> PyInt(3000), type |-> PyStr("bones"), count |-> PyInt(4), speed |-> PyFloat(35), orientation |-> PyStr("vertical")])>>)])>>)])],
  [id |-> "undyne", data |-> PyDict([
      name |-> PyStr("Undyne"),
      hp |-> PyInt(1500),
      attack |-> PyInt(10),
      defense |-> PyInt(0),
      gold |-> PyInt(0),
      exp |-> PyInt(0),
      spareThreshold |-> PyInt(0),
      dialogue |-> PyList(<<
        PyStr("* Undyne attacks!"),
        PyStr("* Undyne is smiling."),
        PyStr("* Undyne points heroically\n  at you."),
        PyStr("* Smells like anime.")>>),
      checkText |-> PyStr("ATK 10 DEF 0\n* The heroine that NEVER gives up."),
      sprites |-> PyDict([idle |-> PyList(<<PyStr("Battle/Characters/Undyne/spr_undynebattle_0.png")>>)]),
      acts |-> PyList(<<
        PyDict([name |-> PyStr("Check"), effect |-> PyStr("check")]),
        PyDict([
          name |-> PyStr("Challenge"),
          effect |-> PyStr("challenge"),
          text |-> PyStr("* You tell Undyne you'll fight her."),
          mercyIncrease |-> PyInt(0)]),
        PyDict([name |-> PyStr("Plead"), effect |-> PyStr("plead"), text |-> PyStr("* You plead with Undyne."), mercyIncrease |-> PyInt(10)])>>),
      attackPatterns |-> PyList(<<
        PyDict([
          name |-> PyStr("Spear Rain"),
          duration |-> PyInt(5000),
          waves |-> PyList(<<
            PyDict([
              time |-> PyInt(0),
              type |-> PyStr("projectiles"),
              count |-> PyInt(10),
              speed |-> PyInt(3),
              size |-> PyInt(15),
              side |-> PyStr("top")]),
            PyDict([
              time |-> PyInt(1500),
              type |-> PyStr("projectiles"),
              count |-> PyInt(10),
              speed |-> PyInt(3),
              size |-> PyInt(15),
              side |-> PyStr("top")]),
            PyDict([
              time |-> PyInt(3000),
              type |-> PyStr("projectiles"),
              count |-> PyInt(12),
              speed |-> PyFloat(35),
              size |-> PyInt(15),
              side |-> PyStr("top")])>>)])>>)])],
  [id |-> "mettaton", data |-> PyDict([
      name |-> PyStr("Mettaton EX"),
      hp |-> PyInt(1000),
      attack |-> PyInt(10),
      defense |-> PyInt(255),
      gold |-> PyInt(0),
      exp |-> PyInt(0),
      spareThreshold |-> PyInt(0),
      dialogue |-> PyList(<<
        PyStr("* Mettaton poses dramatically!"),
        PyStr("* Mettaton is checking his\n  ratings."),
        PyStr("* Mettaton adjusts his hair."),
        PyStr("* Smells like a television studio.")>>),
      checkText |-> PyStr("ATK 10 DEF 255\n* Lights! Camera! Action!"),
      sprites |-> PyDict([idle |-> PyList(<<PyStr("Battle/Characters/Mettaton EX/spr_mettatonbattle_pose_0.png")>>)]),
      acts |-> PyList(<<
        PyDict([name |-> PyStr("Check"), effect |-> PyStr("check")]),
        PyDict([
          name |-> PyStr("Pose"),
          effect |-> PyStr("pose"),
          text |-> PyStr("* You strike a pose!\n* The ratings went up!"),
          mercyIncrease |-> PyInt(20)]),
        PyDict([
          name |-> PyStr("Boast"),
          effect |-> PyStr("boast"),
          text |-> PyStr("* You boast about your abilities!\n* The ratings went up!"),
          mercyIncrease |-> PyInt(20)]),
        PyDict([
          name |-> PyStr("Yellow"),
          effect |-> PyStr("yellow"),
          text |-> PyStr("* You turn the switch to yellow!"),
          mercyIncrease |-> PyInt(100)])>>),
      attackPatterns |-> PyList(<<
        PyDict([
          name |-> PyStr("Leg Attack"),
          duration |-> PyInt(5000),
          waves |-> PyList(<<
            PyDict([
              time |-> PyInt(0),
              type |-> PyStr("projectiles"),
              count |-> PyInt(8),
              speed |-> PyInt(3),
              size |-> PyInt(20),
              side |-> PyStr("left")]),
            PyDict([
              time |-> PyInt(2000),
              type |-> PyStr("projectiles"),
              count |-> PyInt(8),
              speed |-> PyInt(3),
              size |-> PyInt(20),
              side |-> PyStr("right")])>>)])>>)])],
  [id |-> "asgore", data |-> PyDict([
      name |-> PyStr("Asgore"),
      hp |-> PyInt(3500),
      attack |-> PyInt(10),
      defense |-> PyInt(1),
      gold |-> PyInt(0),
      exp |-> PyInt(0),
      spareThreshold |-> PyInt(0),
      dialogue |-> PyList(<<
        PyStr("* Asgore prepares a magic attack."),
        PyStr("* Asgore is filled with regret."),
        PyStr("* Asgore gazes at you."),
        PyStr("* Smells like golden flowers.")>>),
      checkText |-> PyStr("ATK 10 DEF 1\n* The king of the monsters."),
      sprites |-> PyDict([idle |-> PyList(<<PyStr("Battle/Characters/Asgore/Head/spr_asgore_head_0.png")>>)]),
      acts |-> PyList(<<
        PyDict([name |-> PyStr("Check"), effect |-> PyStr("check")]),
        PyDict([
          name |-> PyStr("Talk"),
          effect |-> PyStr("talk"),
          text |-> PyStr("* You talk to Asgore.\n* He looks away."),
          mercyIncrease |-> PyInt(0)]),
        PyDict([name |-> PyStr("Mercy"), effect |-> PyStr("mercy"), text |-> PyStr("* You beg for mercy."), mercyIncrease |-> PyInt(0)])>>),
      attackPatterns |-> PyList(<<
        PyDict([
          name |-> PyStr("Trident Swipe"),
          duration |-> PyInt(6000),
          waves |-> PyList(<<
            PyDict([
              time |-> PyInt(0),
              type |-> PyStr("projectiles"),
              count |-> PyInt(12),
              speed |-> PyInt(3),
              size |-> PyInt(25),
              side |-> PyStr("top")]),
            PyDict([
              time |-> PyInt(2000),
              type |-> PyStr("projectiles"),
              count |-> PyInt(12),
              speed |-> PyInt(3),
              size |-> PyInt(25),
              side |-> PyStr("bottom")]),
            PyDict([
              time |-> PyInt(4000),
              type |-> PyStr("projectiles"),
              count |-> PyInt(15),
              speed |-> PyFloat(35),
              size |-> PyInt(25),
              side |-> PyStr("top")])>>)])>>)])],
  [id |-> "sans", data |-> PyDict([
      name |-> PyStr("Sans"),
      hp |-> PyInt(1),
      attack |-> PyInt(1),
      defense |-> PyInt(1),
      gold |-> PyInt(0),
      exp |-> PyInt(0),
      spareThreshold |-> PyInt(0),
      dialogue |-> PyList(<<PyStr("* sans is judging your sins."), PyStr("* sans is winking."), PyStr("* ...  "), PyStr("* Smells like  bad times.")>>),
      checkText |-> PyStr("ATK 1 DEF 1\n* The easiest enemy.\n* Can only deal 1 damage."),
      sprites |-> PyDict([idle |-> PyList(<<PyStr("Battle/Characters/Sans/spr_sansbattle_0.png")>>)]),
      acts |-> PyList(<<
        PyDict([name |-> PyStr("Check"), effect |-> PyStr("check")]),
        PyDict([name |-> PyStr("Spare"), effect |-> PyStr("spare"), text |-> PyStr("* Sans spares you..."), mercyIncrease |-> PyInt(0)])>>),
      attackPatterns |-> PyList(<<
        PyDict([
          name |-> PyStr("Gaster Blaster"),
          duration |-> PyInt(5000),
          waves |-> PyList(<<
            PyDict([time |-> PyInt(0), type |-> PyStr("bones"), count |-> PyInt(5), speed |-> PyInt(4), orientation |-> PyStr("horizontal")]),
            PyDict([time |-> PyInt(1000), type |-> PyStr("bones"), count |-> PyInt(5), speed |-> PyInt(4), orientation |-> PyStr("vertical")]),
            PyDict([time |-> PyInt(2000), type |-> PyStr("bones"), count |-> PyInt(6), speed |-> PyInt(5), orientation |-> PyStr("horizontal")]),
            PyDict([time |-> PyInt(3000), type |-> PyStr("bones"), count |-> PyInt(6), speed |-> PyInt(5), orientation |-> PyStr("vertical")])>>)])>>)])],
  [id |-> "flowey", data |-> PyDict([
      name |-> PyStr("Flowey"),
      hp |-> PyInt(1000),
      attack |-> PyInt(8),
      defense |-> PyInt(10),
      gold |-> PyInt(0),
      exp |-> PyInt(0),
      spareThreshold |-> PyInt(0),
      dialogue |-> PyList(<<
        PyStr("* Flowey laughs maniacally."),
        PyStr("* Flowey is thinking about\n  killing everyone."),
        PyStr("* Flowey winks at you."),
        PyStr("* Smells like flowers.")>>),
      checkText |-> PyStr("ATK 8 DEF 10\n* Truly evil."),
      sprites |-> PyDict([idle |-> PyList(<<PyStr("Battle/Characters/Flowey/General/spr_floweyboss_scared.png")>>)]),
      acts |-> PyList(<<
        PyDict([name |-> PyStr("Check"), effect |-> PyStr("check")]),
        PyDict([name |-> PyStr("Struggle"), effect |-> PyStr("struggle"), text |-> PyStr("* You struggle..."), mercyIncrease |-> PyInt(0)])>>),
      attackPatterns |-> PyList(<<
        PyDict([
          name |-> PyStr("Friendliness Pellets"),
          duration |-> PyInt(4500),
          waves |-> PyList(<<
            PyDict([time |-> PyInt(0), type |-> PyStr("circle"), startRadius |-> PyInt(10), endRadius |-> PyInt(100), duration |-> PyInt(80)]),
            PyDict([time |-> PyInt(1500), type |-> PyStr("circle"), startRadius |-> PyInt(10), endRadius |-> PyInt(100), duration |-> PyInt(80)]),
            PyDict([time |-> PyInt(3000), type |-> PyStr("circle"), startRadius |-> PyInt(10), endRadius |-> PyInt(100), duration |-> PyInt(80)])>>)])>>)])],
  [id |-> "asriel", data |-> PyDict([
      name |-> PyStr("Asriel Dreemurr"),
      hp |-> PyInt(9999),
      attack |-> PyInt(10),
      defense |-> PyInt(9999),
      gold |-> PyInt(0),
      exp |-> PyInt(0),
      spareThreshold |-> PyInt(0),
      dialogue |-> PyList(<<
        PyStr("* Asriel prepares to use his\n  full power."),
        PyStr("* Asriel is smiling."),
        PyStr("* Asriel readies CHAOS SABER."),
        PyStr("* Smells like... hopes and dreams.")>>),
      checkText |-> PyStr("ATK ~ DEF ~\n* The absolute GOD of Hyperdeath!"),
      sprites |-> PyDict([idle |-> PyList(<<PyStr("Battle/Characters/Asriel Dreemurr/God of Hyperdeath/spr_godhyperdeath_form_0.png")>>)]),
      acts |-> PyList(<<
        PyDict([name |-> PyStr("Check"), effect |-> PyStr("check")]),
        PyDict([name |-> PyStr("Dream"), effect |-> PyStr("dream"), text |-> PyStr("* You think of your dreams."), mercyIncrease |-> PyInt(10)]),
        PyDict([name |-> PyStr("Hope"), effect |-> PyStr("hope"), text |-> PyStr("* You think of hope."), mercyIncrease |-> PyInt(10)]),
        PyDict([name |-> PyStr("Save"), effect |-> PyStr("save"), text |-> PyStr("* You saved Asriel."), mercyIncrease |-> PyInt(50)])>>),
      attackPatterns |-> PyList(<<
        PyDict([
          name |-> PyStr("Chaos Saber"),
          duration |-> PyInt(6000),
          waves |-> PyList(<<
            PyDict([
              time |-> PyInt(0),
              type |-> PyStr("projectiles"),
              count |-> PyInt(15),
              speed |-> PyInt(4),
              size |-> PyInt(30),
              side |-> PyStr("top")]),
            PyDict([
              time |-> PyInt(1500),
              type |-> PyStr("projectiles"),
              count |-> PyInt(15),
              speed |-> PyInt(4),
              size |-> PyInt(30),
              side |-> PyStr("bottom")]),
            PyDict([
              time |-> PyInt(3000),
              type |-> PyStr("projectiles"),
              count |-> PyInt(15),
              speed |-> PyInt(4),
              size |-> PyInt(30),
              side |-> PyStr("left")]),
            PyDict([
              time |-> PyInt(4500),
              type |-> PyStr("projectiles"),
              count |-> PyInt(15),
              speed |-> PyInt(4),
              size |-> PyInt(30),
              side |-> PyStr("right")])>>)])>>)])]
  >>

\* generate_enemies.py: ENEMIES as the literal is written, in insertion order.
ENEMIES ==
  <<
  [id |-> "froggit", data |-> PyDict([
      name |-> PyStr("Froggit"),
      hp |-> PyInt(30),
      attack |-> PyInt(5),
      defense |-> PyInt(0),
      gold |-> PyInt(2),
      exp |-> PyInt(3),
      spareThreshold |-> PyInt(0),
      dialogue |-> PyList(<<
        PyStr("* Froggit hops closer."),
        PyStr("* Froggit makes a frog noise."),
        PyStr("* The battlefield is filled with\n  the smell of mustard seed."),
        PyStr("* Froggit doesn't seem to know\n  why it's here.")>>),
      checkText |-> PyStr("ATK 4 DEF 1\n* Life is difficult for this enemy."),
      sprites |-> PyDict([
        idle |-> PyList(<<
          PyStr("Battle/Enemies/01 - Ruins/Froggit/spr_froggit_0.png"),
          PyStr("Battle/Enemies/01 - Ruins/Froggit/spr_froggit_1.png"),
          PyStr("Battle/Enemies/01 - Ruins/Froggit/spr_froggit_2.png"),
          PyStr("Battle/Enemies/01 - Ruins/Froggit/spr_froggit_3.png")>>)]),
      acts |-> PyList(<<
        PyDict([name |-> PyStr("Check"), effect |-> PyStr("check")]),
        PyDict([
          name |-> PyStr("Compliment"),
          effect |-> PyStr("compliment"),
          text |-> PyStr("* You compliment Froggit.\n* It doesn't seem to understand..."),
          mercyIncrease |-> PyInt(30)]),
        PyDict([
          name |-> PyStr("Threaten"),
          effect |-> PyStr("threaten"),
          text |-> PyStr("* You threaten Froggit.\n* It starts to hop away."),
          mercyIncrease |-> PyInt(10)])>>)])],
  [id |-> "whimsun", data |-> PyDict([
      name |-> PyStr("Whimsun"),
      hp |-> PyInt(10),
      attack |-> PyInt(5),
      defense |-> PyInt(0),
      gold |-> PyInt(2),
      exp |-> PyInt(2),
      spareThreshold |-> PyInt(0),
      dialogue |-> PyList(<<
        PyStr("* Whimsun approached meekly!"),
        PyStr("* Whimsun continues to mutter\n  apologies."),
        PyStr("* Whimsun is hyperventilating."),
        PyStr("* Whimsun is thinking about\n  its friend.")>>),
      checkText |-> PyStr("ATK 5 DEF 0\n* This monster is too sensitive\n  to fight..."),
      sprites |-> PyDict([idle |-> PyList(<<PyStr("Battle/Enemies/01 - Ruins/Whimsun/spr_whimsun_0.png")>>)]),
      acts |-> PyList(<<
        PyDict([name |-> PyStr("Check"), effect |-> PyStr("check")]),
        PyDict([
          name |-> PyStr("Console"),
          effect |-> PyStr("console"),
          text |-> PyStr("* You console Whimsun.\n* Its eyes glimmer with tears..."),
          mercyIncrease |-> PyInt(100)]),
        PyDict([
          name |-> PyStr("Terrorize"),
          effect |-> PyStr("terrorize"),
          text |-> PyStr("* You wiggle your arms at Whimsun.\n* Whimsun freaks out!"),
          mercyIncrease |-> PyInt(100)])>>)])],
  [id |-> "moldsmal", data |-> PyDict([
      name |-> PyStr("Moldsmal"),
      hp |-> PyInt(50),
      attack |-> PyInt(6),
      defense |-> PyInt(0),
      gold |-> PyInt(3),
      exp |-> PyInt(3),
      spareThreshold |-> PyInt(0),
      dialogue |-> PyList(<<
        PyStr("* Moldsmal wavers around."),
        PyStr("* Moldsmal burbles quietly."),
        PyStr("* Moldsmal is pondering something."),
        PyStr("* Smells like sweet lemons.")>>),
      checkText |-> PyStr("ATK 6 DEF 0\n* Stereotypical: Curvaceously\n  attractive, but no brains..."),
      sprites |-> PyDict([
        idle |-> PyList(<<PyStr("Battle/Enemies/01 - Ruins/Moldsmal/spr_moldsmal_0.png"), PyStr("Battle/Enemies/01 - Ruins/Moldsmal/spr_moldsmal_1.png")>>)]),
      acts |-> PyList(<<
        PyDict([name |-> PyStr("Check"), effect |-> PyStr("check")]),
        PyDict([
          name |-> PyStr("Imitate"),
          effect |-> PyStr("imitate"),
          text |-> PyStr("* You lie on the ground and wiggle.\n* Moldsmal is flattered."),
          mercyIncrease |-> PyInt(30)]),
        PyDict([
          name |-> PyStr("Flirt"),
          effect |-> PyStr("flirt"),
          text |-> PyStr("* You wiggle your hips.\n* Moldsmal wiggles back."),
          mercyIncrease |-> PyInt(50)])>>)])],
  [id |-> "loox", data |-> PyDict([
      name |-> PyStr("Loox"),
      hp |-> PyInt(50),
      attack |-> PyInt(6),
      defense |-> PyInt(6),
      gold |-> PyInt(5),
      exp |-> PyInt(5),
      spareThreshold |-> PyInt(0),
      dialogue |-> PyList(<<
        PyStr("* Loox draws near!"),
        PyStr("* Loox stares at you."),
        PyStr("* Loox is suspicious of you."),
        PyStr("* Loox gnashes its teeth.")>>),
      checkText |-> PyStr("ATK 6 DEF 6\n* Don't pick on.\n* Family name: Eyewalker."),
      sprites |-> PyDict([idle |-> PyList(<<PyStr("Battle/Enemies/01 - Ruins/Loox/spr_loox_0.png")>>)]),
      acts |-> PyList(<<
        PyDict([name |-> PyStr("Check"), effect |-> PyStr("check")]),
        PyDict([
          name |-> PyStr("Pick On"),
          effect |-> PyStr("pickon"),
          text |-> PyStr("* You pick on Loox.\n* Its defense dropped!"),
          mercyIncrease |-> PyInt(30)]),
        PyDict([
          name |-> PyStr("Don't Pick On"),
          effect |-> PyStr("dontpickon"),
          text |-> PyStr("* You don't pick on Loox.\n* Loox appreciates your restraint."),
          mercyIncrease |-> PyInt(50)])>>)])],
  [id |-> "vegetoid", data |-> PyDict([
      name |-> PyStr("Vegetoid"),
      hp |-> PyInt(72),
      attack |-> PyInt(6),
      defense |-> PyInt(2),
      gold |-> PyInt(4),
      exp |-> PyInt(5),
      spareThreshold |-> PyInt(0),
      dialogue |-> PyList(<<
        PyStr("* Vegetoid came out of the earth!"),
        PyStr("* Vegetoid settles down."),
        PyStr("* Vegetoid offers you a healthy meal."),
        PyStr("* Smells like apple juice.")>>),
      checkText |-> PyStr("ATK 6 DEF 2\n* Serving Size: 1 Monster.\n  Not monitored by the USDA."),
      sprites |-> PyDict([idle |-> PyList(<<PyStr("Battle/Enemies/01 - Ruins/Vegetoid/spr_vegetoid_0.png")>>)]),
      acts |-> PyList(<<
        PyDict([name |-> PyStr("Check"), effect |-> PyStr("check")]),
        PyDict([
          name |-> PyStr("Dinner"),
          effect |-> PyStr("dinner"),
          text |-> PyStr("* You ask Vegetoid for dinner.\n* It offers you a healthy meal!"),
          mercyIncrease |-> PyInt(50)]),
        PyDict([
          name |-> PyStr("Devour"),
          effect |-> PyStr("devour"),
          text |-> PyStr("* You eat Vegetoid's vegetables.\n* Your HP was maxed out!"),
          mercyIncrease |-> PyInt(100)])>>)])],
  [id |-> "migosp", data |-> PyDict([
      name |-> PyStr("Migosp"),
      hp |-> PyInt(40),
      attack |-> PyInt(7),
      defense |-> PyInt(0),
      gold |-> PyInt(3),
      exp |-> PyInt(5),
      spareThreshold |-> PyInt(0),
      dialogue |-> PyList(<<
        PyStr("* Migosp comes near!"),
        PyStr("* Migosp is thinking about\n  its friends."),
        PyStr("* Migosp dances around."),
        PyStr("* Smells like a combination of  \n  plums, clams, and bleach.")>>),
      checkText |-> PyStr("ATK 7 DEF 0\n* Seems evil, but it's just\n  with the wrong crowd..."),
      sprites |-> PyDict([idle |-> PyList(<<PyStr("Battle/Enemies/01 - Ruins/Migosp/spr_migosp_0.png")>>)]),
      acts |-> PyList(<<
        PyDict([name |-> PyStr("Check"), effect |-> PyStr("check")]),
        PyDict([
          name |-> PyStr("Talk"),
          effect |-> PyStr("talk"),
          text |-> PyStr("* You talk to Migosp.\n* Seems comfortable here."),
          mercyIncrease |-> PyInt(0)])>>)])],
  [id |-> "napstablook", data |-> PyDict([
      name |-> PyStr("Napstablook"),
      hp |-> PyInt(88),
      attack |-> PyInt(10),
      defense |-> PyInt(255),
      gold |-> PyInt(0),
      exp |-> PyInt(0),
      spareThreshold |-> PyInt(0),
      dialogue |-> PyList(<<PyStr("* napstablook..."), PyStr("* i'm sorry..."), PyStr("* i'm just really...\n  ...tired..."), PyStr("* oh no...")>>),
      checkText |-> PyStr("ATK 10 DEF -40\n* This monster is really feeling\n  'it'... whatever 'it' is."),
      sprites |-> PyDict([
        idle |-> PyList(<<
          PyStr("Battle/Enemies/01 - Ruins/Napstablook/spr_napstabattle_0.png"),
          PyStr("Battle/Enemies/01 - Ruins/Napstablook/spr_napstabattle_1.png")>>)]),
      acts |-> PyList(<<
        PyDict([name |-> PyStr("Check"), effect |-> PyStr("check")]),
        PyDict([
          name |-> PyStr("Cheer"),
          effect |-> PyStr("cheer"),
          text |-> PyStr("* You console Napstablook.\n* Its ATTACK dropped!"),
          mercyIncrease |-> PyInt(20)]),
        PyDict([
          name |-> PyStr("Flirt"),
          effect |-> PyStr("flirt"),
          text |-> PyStr("* You flirt with Napstablook.\n  uh... no thanks..."),
          mercyIncrease |-> PyInt(10)])>>)])],
  [id |-> "dummy", data |-> PyDict([
      name |-> PyStr("Dummy"),
      hp |-> PyInt(15),
      attack |-> PyInt(0),
      defense |-> PyInt(0),
      gold |-> PyInt(0),
      exp |-> PyInt(0),
      spareThreshold |-> PyInt(0),
      dialogue |-> PyList(<<
        PyStr("* The dummy stands there motionless."),
        PyStr("* Cotton is spilling out of the dummy."),
        PyStr("* The dummy is giving you a blank stare.")>>),
      checkText |-> PyStr("ATK 0 DEF 0\n* A cotton heart and a button eye.\n  You are the apple of its eye."),
      sprites |-> PyDict([idle |-> PyList(<<PyStr("Battle/Enemies/01 - Ruins/Dummy/spr_dummyfight_glad_0.png")>>)]),
      acts |-> PyList(<<
        PyDict([name |-> PyStr("Check"), effect |-> PyStr("check")]),
        PyDict([
          name |-> PyStr("Talk"),
          effect |-> PyStr("talk"),
          text |-> PyStr("* You talk to the dummy.\n* It seems happy."),
          mercyIncrease |-> PyInt(100)]),
        PyDict([
          name |-> PyStr("Hug"),
          effect |-> PyStr("hug"),
          text |-> PyStr("* You hug the dummy.\n* It's soft and fluffy..."),
          mercyIncrease |-> PyInt(100)])>>)])],
  [id |-> "snowdrake", data |-> PyDict([
      name |-> PyStr("Snowdrake"),
      hp |-> PyInt(74),
      attack |-> PyInt(7),
      defense |-> PyInt(0),
      gold |-> PyInt(6),
      exp |-> PyInt(6),
      spareThreshold |-> PyInt(0),
      dialogue |-> PyList(<<
        PyStr("* Snowdrake comes flying in!"),
        PyStr("* Snowdrake is checking you out."),
        PyStr("* Snowdrake has frozen over."),
        PyStr("* Smells like... snow.")>>),
      checkText |-> PyStr("ATK 7 DEF 0\n* This teen comedian fights to\n  keep a captive audience."),
      sprites |-> PyDict([idle |-> PyList(<<PyStr("Battle/Enemies/02 - Snowdin/Snowdrake/spr_icecap_0.png")>>)]),
      acts |-> PyList(<<
        PyDict([name |-> PyStr("Check"), effect |-> PyStr("check")]),
        PyDict([
          name |-> PyStr("Joke"),
          effect |-> PyStr("joke"),
          text |-> PyStr("* You make a joke.\n* Snowdrake laughs!"),
          mercyIncrease |-> PyInt(30)]),
        PyDict([
          name |-> PyStr("Heckle"),
          effect |-> PyStr("heckle"),
          text |-> PyStr("* You heckle Snowdrake.\n* Its confidence wavers..."),
          mercyIncrease |-> PyInt(30)])>>)])],
  [id |-> "icecap", data |-> PyDict([
      name |-> PyStr("Ice Cap"),
      hp |-> PyInt(48),
      attack |-> PyInt(6),
      defense |-> PyInt(3),
      gold |-> PyInt(5),
      exp |-> PyInt(4),
      spareThreshold |-> PyInt(0),
      dialogue |-> PyList(<<
        PyStr("* Ice Cap appears!"),
        PyStr("* Ice Cap is thinking about\n  its hat."),
        PyStr("* Ice Cap is freezing."),
        PyStr("* Smells like icicles.")>>),
      checkText |-> PyStr("ATK 6 DEF 3\n* This teen wonders why it isn't\n  named 'Ice Hat'."),
      sprites |-> PyDict([idle |-> PyList(<<PyStr("Battle/Enemies/02 - Snowdin/Icecap/spr_icecap_0.png")>>)]),
      acts |-> PyList(<<
        PyDict([name |-> PyStr("Check"), effect |-> PyStr("check")]),
        PyDict([
          name |-> PyStr("Steal Hat"),
          effect |-> PyStr("steal"),
          text |-> PyStr("* You stole Ice Cap's hat.\n* Ice Cap is bare!"),
          mercyIncrease |-> PyInt(100)]),
        PyDict([name |-> PyStr("Ignore"), effect |-> PyStr("ignore"), text |-> PyStr("* You ignore Ice Cap."), mercyIncrease |-> PyInt(10)])>>)])],
  [id |-> "gyftrot", data |-> PyDict([
      name |-> PyStr("Gyftrot"),
      hp |-> PyInt(108),
      attack |-> PyInt(7),
      defense |-> PyInt(3),
      gold |-> PyInt(15),
      exp |-> PyInt(8),
      spareThreshold |-> PyInt(0),
      dialogue |-> PyList(<<PyStr("* Gyftrot appears!"), PyStr("* Gyftrot is sighing."), PyStr("* Gyftrot is annoyed."), PyStr("* Smells like pine trees.")>>),
      checkText |-> PyStr("ATK 7 DEF 3\n* Wonders why people are so\n  horrible to each other."),
      sprites |-> PyDict([idle |-> PyList(<<PyStr("Battle/Enemies/02 - Snowdin/Gyftrot/spr_gyftrot_0.png")>>)]),
      acts |-> PyList(<<
        PyDict([name |-> PyStr("Check"), effect |-> PyStr("check")]),
        PyDict([
          name |-> PyStr("Undecorate"),
          effect |-> PyStr("undecorate"),
          text |-> PyStr("* You remove the decorations.\n* Gyftrot feels much better!"),
          mercyIncrease |-> PyInt(50)]),
        PyDict([
          name |-> PyStr("Decorate"),
          effect |-> PyStr("decorate"),
          text |-> PyStr("* You add more decorations.\n* Gyftrot sighs even louder..."),
          mercyIncrease |-> PyInt(0)])>>)])],
  [id |-> "jerry", data |-> PyDict([
      name |-> PyStr("Jerry"),
      hp |-> PyInt(100),
      attack |-> PyInt(7),
      defense |-> PyInt(1),
      gold |-> PyInt(1),
      exp |-> PyInt(1),
      spareThreshold |-> PyInt(0),
      dialogue |-> PyList(<<
        PyStr("* Jerry clings to you!"),
        PyStr("* Jerry eats powdery food\n  and licks its hands proudly."),
        PyStr("* Jerry ditches its friend to\n  talk to you."),
        PyStr("* Smells like... Jerry.")>>),
      checkText |-> PyStr("ATK 7 DEF 1\n* Everybody knows Jerry.\n* Attack when it's not looking."),
      sprites |-> PyDict([idle |-> PyList(<<PyStr("Battle/Enemies/02 - Snowdin/Jerry/spr_jerry_0.png")>>)]),
      acts |-> PyList(<<
        PyDict([name |-> PyStr("Check"), effect |-> PyStr("check")]),
        PyDict([
          name |-> PyStr("Ditch"),
          effect |-> PyStr("ditch"),
          text |-> PyStr("* You ditch Jerry.\n* Everyone is relieved!"),
          mercyIncrease |-> PyInt(100)])>>)])],
  [id |-> "aaron", data |-> PyDict([
      name |-> PyStr("Aaron"),
      hp |-> PyInt(98),
      attack |-> PyInt(8),
      defense |-> PyInt(0),
      gold |-> PyInt(10),
      exp |-> PyInt(7),
      spareThreshold |-> PyInt(0),
      dialogue |-> PyList(<<PyStr("* Aaron appears!"), PyStr("* Aaron is flexing."), PyStr("* Aaron is admiring himself."), PyStr("* Smells like musk.")>>),
      checkText |-> PyStr("ATK 8 DEF 0\n* This seahorse has a lot of\n  HP. Don't just hack away..."),
      sprites |-> PyDict([idle |-> PyList(<<PyStr("Battle/Enemies/03 - Waterfall/Aaron/spr_aaron_0.png")>>)]),
      acts |-> PyList(<<
        PyDict([name |-> PyStr("Check"), effect |-> PyStr("check")]),
        PyDict([
          name |-> PyStr("Flex"),
          effect |-> PyStr("flex"),
          text |-> PyStr("* You flex your muscles.\n* Aaron is impressed!"),
          mercyIncrease |-> PyInt(40)]),
        PyDict([
          name |-> PyStr("Flirt"),
          effect |-> PyStr("flirt"),
          text |-> PyStr("* You flirt with Aaron.\n  Aaron's face gets redder..."),
          mercyIncrease |-> PyInt(40)])>>)])],
  [id |-> "woshua", data |-> PyDict([
      name |-> PyStr("Woshua"),
      hp |-> PyInt(70),
      attack |-> PyInt(7),
      defense |-> PyInt(1),
      gold |-> PyInt(8),
      exp |-> PyInt(5),
      spareThreshold |-> PyInt(0),
      dialogue |-> PyList(<<
        PyStr("* Woshua appears!"),
        PyStr("* Woshua is judging your\n  cleanliness."),
        PyStr("* Woshua is scrubbing furiously."),
        PyStr("* Smells like disinfectant.")>>),
      checkText |-> PyStr("ATK 7 DEF 1\n* This humble germaphobe seeks\n  to cleanse the whole world."),
      sprites |-> PyDict([idle |-> PyList(<<PyStr("Battle/Enemies/03 - Waterfall/Woshua/spr_woshua_0.png")>>)]),
      acts |-> PyList(<<
        PyDict([name |-> PyStr("Check"), effect |-> PyStr("check")]),
        PyDict([
          name |-> PyStr("Clean"),
          effect |-> PyStr("clean"),
          text |-> PyStr("* You let Woshua clean you.\n* Woshua is satisfied!"),
          mercyIncrease |-> PyInt(100)]),
        PyDict([
          name |-> PyStr("Joke"),
          effect |-> PyStr("joke"),
          text |-> PyStr("* You make a dirty joke.\n* Woshua is disgusted!"),
          mercyIncrease |-> PyInt(0)])>>)])],
  [id |-> "moldbygg", data |-> PyDict([
      name |-> PyStr("Moldbygg"),
      hp |-> PyInt(80),
      attack |-> PyInt(8),
      defense |-> PyInt(0),
      gold |-> PyInt(10),
      exp |-> PyInt(8),
      spareThreshold |-> PyInt(0),
      dialogue |-> PyList(<<PyStr("* Moldbygg wavers forward."), PyStr("* Moldbygg is oozing."), PyStr("* Moldbygg burbles."), PyStr("* Smells like vanilla.")>>),
      checkText |-> PyStr("ATK 8 DEF 0\n* Huge, hulking, unscary.\n* Looking for love."),
      sprites |-> PyDict([idle |-> PyList(<<PyStr("Battle/Enemies/03 - Waterfall/Moldbygg/spr_moldbygg_0.png")>>)]),
      acts |-> PyList(<<
        PyDict([name |-> PyStr("Check"), effect |-> PyStr("check")]),
        PyDict([
          name |-> PyStr("Lie Down"),
          effect |-> PyStr("lie"),
          text |-> PyStr("* You lie on the ground.\n* Moldbygg lies on top of you!"),
          mercyIncrease |-> PyInt(50)]),
        PyDict([
          name |-> PyStr("Unhug"),
          effect |-> PyStr("unhug"),
          text |-> PyStr("* You push Moldbygg off.\n* Moldbygg gets the hint."),
          mercyIncrease |-> PyInt(50)])>>)])],
  [id |-> "shyren", data |-> PyDict([
      name |-> PyStr("Shyren"),
      hp |-> PyInt(66),
      attack |-> PyInt(7),
      defense |-> PyInt(0),
      gold |-> PyInt(9),
      exp |-> PyInt(4),
      spareThreshold |-> PyInt(0),
      dialogue |-> PyList(<<
        PyStr("* Shyren hums a melody."),
        PyStr("* Shyren trebles with fear."),
        PyStr("* Shyren is humming."),
        PyStr("* Smells like music.")>>),
      checkText |-> PyStr("ATK 7 DEF 0\n* A talented musician\n  but she's too shy to sing."),
      sprites |-> PyDict([idle |-> PyList(<<PyStr("Battle/Enemies/03 - Waterfall/Shyren/spr_shyren_0.png")>>)]),
      acts |-> PyList(<<
        PyDict([name |-> PyStr("Check"), effect |-> PyStr("check")]),
        PyDict([
          name |-> PyStr("Hum"),
          effect |-> PyStr("hum"),
          text |-> PyStr("* You hum along with Shyren.\n* Shyren grows confident!"),
          mercyIncrease |-> PyInt(30)]),
        PyDict([
          name |-> PyStr("Sing"),
          effect |-> PyStr("sing"),
          text |-> PyStr("* You sing to Shyren.\n* Shyren is happy!"),
          mercyIncrease |-> PyInt(50)])>>)])],
  [id |-> "vulkin", data |-> PyDict([
      name |-> PyStr("Vulkin"),
      hp |-> PyInt(66),
      attack |-> PyInt(9),
      defense |-> PyInt(0),
      gold |-> PyInt(10),
      exp |-> PyInt(6),
      spareThreshold |-> PyInt(0),
      dialogue |-> PyList(<<
        PyStr("* Vulkin erupts!"),
        PyStr("* Vulkin is warming up."),
        PyStr("* Vulkin wants to be popular."),
        PyStr("* Smells like hot springs.")>>),
      checkText |-> PyStr("ATK 9 DEF 0\n* Hotheaded. Tries to calm\n  people down with hugs."),
      sprites |-> PyDict([idle |-> PyList(<<PyStr("Battle/Enemies/04 - Hotland/Vulkin/spr_vulkin_0.png")>>)]),
      acts |-> PyList(<<
        PyDict([name |-> PyStr("Check"), effect |-> PyStr("check")]),
        PyDict([
          name |-> PyStr("Encourage"),
          effect |-> PyStr("encourage"),
          text |-> PyStr("* You encourage Vulkin.\n* Vulkin is pumped up!"),
          mercyIncrease |-> PyInt(30)]),
        PyDict([
          name |-> PyStr("Hug"),
          effect |-> PyStr("hug"),
          text |-> PyStr("* You hug Vulkin.\n* Vulkin is cooled down!"),
          mercyIncrease |-> PyInt(50)])>>)])],
  [id |-> "tsunderplane", data |-> PyDict([
      name |-> PyStr("Tsunderplane"),
      hp |-> PyInt(95),
      attack |-> PyInt(9),
      defense |-> PyInt(4),
      gold |-> PyInt(10),
      exp |-> PyInt(7),
      spareThreshold |-> PyInt(0),
      dialogue |-> PyList(<<
        PyStr("* Tsunderplane flies in!"),
        PyStr("* Tsunderplane is tsun-tsun."),
        PyStr("* Tsunderplane is wavering."),
        PyStr("* Smells like airplane food.")>>),
      checkText |-> PyStr("ATK 9 DEF 4\n* Seems mean, but does it secretly\n  like you?"),
      sprites |-> PyDict([idle |-> PyList(<<PyStr("Battle/Enemies/04 - Hotland/Tsunderplane/spr_tsunderplane_0.png")>>)]),
      acts |-> PyList(<<
        PyDict([name |-> PyStr("Check"), effect |-> PyStr("check")]),
        PyDict([
          name |-> PyStr("Approach"),
          effect |-> PyStr("approach"),
          text |-> PyStr("* You approach Tsunderplane.\n* I-it's not like I like you!"),
          mercyIncrease |-> PyInt(30)]),
        PyDict([
          name |-> PyStr("Compliment"),
          effect |-> PyStr("compliment"),
          text |-> PyStr("* You compliment Tsunderplane.\n* B-baka...!"),
          mercyIncrease |-> PyInt(50)])>>)])],
  [id |-> "pyrope", data |-> PyDict([
      name |-> PyStr("Pyrope"),
      hp |-> PyInt(110),
      attack |-> PyInt(10),
      defense |-> PyInt(0),
      gold |-> PyInt(12),
      exp |-> PyInt(10),
      spareThreshold |-> PyInt(0),
      dialogue |-> PyList(<<
        PyStr("* Pyrope bursts in!"),
        PyStr("* Pyrope is jumping around."),
        PyStr("* Pyrope is heating up."),
        PyStr("* Smells like fireworks.")>>),
      checkText |-> PyStr("ATK 10 DEF 0\n* This hotheaded youngster\n  is itching for a fight."),
      sprites |-> PyDict([idle |-> PyList(<<PyStr("Battle/Enemies/04 - Hotland/Pyrope/spr_pyrope_0.png")>>)]),
      acts |-> PyList(<<
        PyDict([name |-> PyStr("Check"), effect |-> PyStr("check")]),
        PyDict([
          name |-> PyStr("Heat Up"),
          effect |-> PyStr("heat"),
          text |-> PyStr("* You encourage Pyrope.\n* Pyrope burns brighter!"),
          mercyIncrease |-> PyInt(30)]),
        PyDict([
          name |-> PyStr("Cool Down"),
          effect |-> PyStr("cool"),
          text |-> PyStr("* You cool Pyrope down.\n* Pyrope feels better!"),
          mercyIncrease |-> PyInt(50)])>>)])],
  [id |-> "muffet", data |-> PyDict([
      name |-> PyStr("Muffet"),
      hp |-> PyInt(1250),
      attack |-> PyInt(10),
      defense |-> PyInt(0),
      gold |-> PyInt(350),
      exp |-> PyInt(100),
      spareThreshold |-> PyInt(0),
      dialogue |-> PyList(<<
        PyStr("* Muffet traps you!"),
        PyStr("* Muffet giggles."),
        PyStr("* Muffet is checking her\n  account balance."),
        PyStr("* Smells like cobwebs and donuts.")>>),
      checkText |-> PyStr("ATK 10 DEF 0\n* If she invites you to her\n  parlor, excuse yourself."),
      sprites |-> PyDict([idle |-> PyList(<<PyStr("Battle/Characters/Muffet/spr_muffet_0.png")>>)]),
      acts |-> PyList(<<
        PyDict([name |-> PyStr("Check"), effect |-> PyStr("check")]),
        PyDict([
          name |-> PyStr("Pay"),
          effect |-> PyStr("pay"),
          text |-> PyStr("* You pay Muffet.\n* Muffet lets you go!"),
          mercyIncrease |-> PyInt(100)]),
        PyDict([name |-> PyStr("Struggle"), effect |-> PyStr("struggle"), text |-> PyStr("* You struggle in the web."), mercyIncrease |-> PyInt(10)])>>)])],
  [id |-> "final_froggit", data |-> PyDict([
      name |-> PyStr("Final Froggit"),
      hp |-> PyInt(100),
      attack |-> PyInt(10),
      defense |-> PyInt(5),
      gold |-> PyInt(15),
      exp |-> PyInt(10),
      spareThreshold |-> PyInt(0),
      dialogue |-> PyList(<<
        PyStr("* Final Froggit hops in!"),
        PyStr("* Final Froggit is pondering\n  the universe."),
        PyStr("* Final Froggit ribbits wisely."),
        PyStr("* Smells like ancient wisdom.")>>),
      checkText |-> PyStr("ATK 10 DEF 5\n* This frog has lived a long time\n  and has sage advice."),
      sprites |-> PyDict([idle |-> PyList(<<PyStr("Battle/Enemies/05 - Core/Final Froggit/spr_finalfroggit_0.png")>>)]),
      acts |-> PyList(<<
        PyDict([name |-> PyStr("Check"), effect |-> PyStr("check")]),
        PyDict([
          name |-> PyStr("Compliment"),
          effect |-> PyStr("compliment"),
          text |-> PyStr("* You compliment Final Froggit.\n* It nods knowingly."),
          mercyIncrease |-> PyInt(40)]),
        PyDict([
          name |-> PyStr("Mystify"),
          effect |-> PyStr("mystify"),
          text |-> PyStr("* You tell Final Froggit something\n  mystical. It's satisfied."),
          mercyIncrease |-> PyInt(100)])>>)])],
  [id |-> "whimsalot", data |-> PyDict([
      name |-> PyStr("Whimsalot"),
      hp |-> PyInt(95),
      attack |-> PyInt(10),
      defense |-> PyInt(2),
      gold |-> PyInt(12),
      exp |-> PyInt(8),
      spareThreshold |-> PyInt(0),
      dialogue |-> PyList(<<
        PyStr("* Whimsalot swoops in!"),
        PyStr("* Whimsalot is confident."),
        PyStr("* Whimsalot is flying strong."),
        PyStr("* Smells like confidence.")>>),
      checkText |-> PyStr("ATK 10 DEF 2\n* Upgraded. Optimistic.\n  Still scared of you."),
      sprites |-> PyDict([idle |-> PyList(<<PyStr("Battle/Enemies/05 - Core/Whimsalot/spr_whimsalot_0.png")>>)]),
      acts |-> PyList(<<
        PyDict([name |-> PyStr("Check"), effect |-> PyStr("check")]),
        PyDict([
          name |-> PyStr("Console"),
          effect |-> PyStr("console"),
          text |-> PyStr("* You console Whimsalot.\n* Whimsalot calms down."),
          mercyIncrease |-> PyInt(50)]),
        PyDict([
          name |-> PyStr("Terrorize"),
          effect |-> PyStr("terrorize"),
          text |-> PyStr("* You terrorize Whimsalot.\n* Whimsalot flies away!"),
          mercyIncrease |-> PyInt(100)])>>)])],
  [id |-> "astigmatism", data |-> PyDict([
      name |-> PyStr("Astigmatism"),
      hp |-> PyInt(110),
      attack |-> PyInt(10),
      defense |-> PyInt(4),
      gold |-> PyInt(15),
      exp |-> PyInt(10),
      spareThreshold |-> PyInt(0),
      dialogue |-> PyList(<<
        PyStr("* Astigmatism drew near!"),
        PyStr("* Astigmatism is staring."),
        PyStr("* Astigmatism is judging you."),
        PyStr("* Smells like eye drops.")>>),
      checkText |-> PyStr("ATK 10 DEF 4\n* Upgraded. Now has a more\n  sophisticated sense of fashion."),
      sprites |-> PyDict([idle |-> PyList(<<PyStr("Battle/Enemies/05 - Core/Astigmatism/spr_astigmatism_0.png")>>)]),
      acts |-> PyList(<<
        PyDict([name |-> PyStr("Check"), effect |-> PyStr("check")]),
        PyDict([name |-> PyStr("Pick On"), effect |-> PyStr("pickon"), text |-> PyStr("* You pick on Astigmatism."), mercyIncrease |-> PyInt(30)]),
        PyDict([
          name |-> PyStr("Don't Pick On"),
          effect |-> PyStr("dontpickon"),
          text |-> PyStr("* You don't pick on Astigmatism.\n* It respects you."),
          mercyIncrease |-> PyInt(50)])>>)])],
  [id |-> "knight_knight", data |-> PyDict([
      name |-> PyStr("Knight Knight"),
      hp |-> PyInt(230),
      attack |-> PyInt(10),
      defense |-> PyInt(8),
      gold |-> PyInt(30),
      exp |-> PyInt(15),
      spareThreshold |-> PyInt(0),
      dialogue |-> PyList(<<
        PyStr("* Knight Knight blocks the way!"),
        PyStr("* Knight Knight is guarding."),
        PyStr("* Knight Knight stands firm."),
        PyStr("* Smells like steel and roses.")>>),
      checkText |-> PyStr("ATK 10 DEF 8\n* This heavy knight fears nothing.\n  Loves its pet cat more than life."),
      sprites |-> PyDict([idle |-> PyList(<<PyStr("Battle/Enemies/05 - Core/Knight Knight/spr_knightknight_0.png")>>)]),
      acts |-> PyList(<<
        PyDict([name |-> PyStr("Check"), effect |-> PyStr("check")]),
        PyDict([
          name |-> PyStr("Sing"),
          effect |-> PyStr("sing"),
          text |-> PyStr("* You sing a lullaby.\n* Knight Knight falls asleep!"),
          mercyIncrease |-> PyInt(100)])>>)])],
  [id |-> "madjick", data |-> PyDict([
      name |-> PyStr("Madjick"),
      hp |-> PyInt(190),
      attack |-> PyInt(10),
      defense |-> PyInt(5),
      gold |-> PyInt(25),
      exp |-> PyInt(12),
      spareThreshold |-> PyInt(0),
      dialogue |-> PyList(<<
        PyStr("* Madjick casts a spell!"),
        PyStr("* Madjick is concentrating."),
        PyStr("* Madjick is muttering\n  incantations."),
        PyStr("* Smells like magic dust.")>>),
      checkText |-> PyStr("ATK 10 DEF 5\n* This magical mercenary wields\n  strange powers."),
      sprites |-> PyDict([idle |-> PyList(<<PyStr("Battle/Enemies/05 - Core/Madjick/spr_madjick_0.png")>>)]),
      acts |-> PyList(<<
        PyDict([name |-> PyStr("Check"), effect |-> PyStr("check")]),
        PyDict([
          name |-> PyStr("Clear Mind"),
          effect |-> PyStr("clearmind"),
          text |-> PyStr("* You clear your mind.\n* Madjick's magic is disturbed!"),
          mercyIncrease |-> PyInt(50)])>>)])]
  >>

\* generate_missing_undertale_enemies.py: ENEMIES, in insertion order.
ENEMIES_missing ==
  <<
  [id |-> "chilldrake", data |-> PyDict([
      name |-> PyStr("Chilldrake"),
      hp |-> PyInt(44),
      attack |-> PyInt(7),
      defense |-> PyInt(0),
      gold |-> PyInt(12),
      exp |-> PyInt(6),
      spareThreshold |-> PyInt(100),
      dialogue |-> PyList(<<
        PyStr("* Chilldrake saunters up!"),
        PyStr("* Chilldrake is trying to be  \n  cool."),
        PyStr("* Chilldrake is thinking about  \n  its jokes."),
        PyStr("* Smells like popsicles.")>>),
      checkText |-> PyStr("ATK 7 DEF 0\\n* Rebels against everything!!\\n  Looking for its friend Snowy."),
      sprites |-> PyDict([idle |-> PyList(<<PyStr("Battle/Enemies/02 - Snowdin/Ice Drake/spr_icedrakebattle_0.png")>>)]),
      acts |-> PyList(<<
        PyDict([name |-> PyStr("Check"), effect |-> PyStr("check")]),
        PyDict([
          name |-> PyStr("Joke"),
          effect |-> PyStr("joke"),
          text |-> PyStr("* You tell a joke.\\n* Chilldrake laughs!"),
          mercyIncrease |-> PyInt(40)]),
        PyDict([
          name |-> PyStr("Ignore"),
          effect |-> PyStr("ignore"),
          text |-> PyStr("* You ignore Chilldrake.\\n* It gets mad!"),
          mercyIncrease |-> PyInt(0)])>>),
      attackPatterns |-> PyList(<<
        PyDict([
          name |-> PyStr("Ice Attack"),
          duration |-> PyInt(4500),
          waves |-> PyList(<<
            PyDict([
              time |-> PyInt(0),
              type |-> PyStr("projectiles"),
              count |-> PyInt(4),
              speed |-> PyFloat(25),
              size |-> PyInt(15),
              side |-> PyStr("top")]),
            PyDict([
              time |-> PyInt(1500),
              type |-> PyStr("projectiles"),
              count |-> PyInt(5),
              speed |-> PyInt(3),
              size |-> PyInt(15),
              side |-> PyStr("left")]),
            PyDict([
              time |-> PyInt(3000),
              type |-> PyStr("projectiles"),
              count |-> PyInt(4),
              speed |-> PyFloat(25),
              size |-> PyInt(15),
              side |-> PyStr("right")])>>)])>>)])],
  [id |-> "doggo", data |-> PyDict([
      name |-> PyStr("Doggo"),
      hp |-> PyInt(70),
      attack |-> PyInt(8),
      defense |-> PyInt(2),
      gold |-> PyInt(30),
      exp |-> PyInt(30),
      spareThreshold |-> PyInt(100),
      dialogue |-> PyList(<<
        PyStr("* Doggo blocks the way!"),
        PyStr("* Doggo is fast asleep."),
        PyStr("* Doggo is questioning your  \n  movements."),
        PyStr("* Smells like wet dog.")>>),
      checkText |-> PyStr("ATK 8 DEF 2\\n* Easily excited by movement.\\n  Hopelessly near-sighted."),
      sprites |-> PyDict([idle |-> PyList(<<PyStr("Battle/Enemies/02 - Snowdin/Doggo/spr_doggo_0.png")>>)]),
      acts |-> PyList(<<
        PyDict([name |-> PyStr("Check"), effect |-> PyStr("check")]),
        PyDict([name |-> PyStr("Pet"), effect |-> PyStr("pet"), text |-> PyStr("* You pet Doggo.\\n* He's so happy!"), mercyIncrease |-> PyInt(100)])>>),
      attackPatterns |-> PyList(<<
        PyDict([
          name |-> PyStr("Blue Sword Sweep"),
          duration |-> PyInt(4000),
          waves |-> PyList(<<PyDict([time |-> PyInt(500), type |-> PyStr("blue_sweep"), speed |-> PyInt(2), orientation |-> PyStr("horizontal")])>>)])>>)])],
  [id |-> "dogamy_dogaressa", data |-> PyDict([
      name |-> PyStr("Dogamy & Dogaressa"),
      hp |-> PyInt(108),
      attack |-> PyInt(8),
      defense |-> PyInt(4),
      gold |-> PyInt(60),
      exp |-> PyInt(60),
      spareThreshold |-> PyInt(100),
      dialogue |-> PyList(<<
        PyStr("* This couple cannot be split up!"),
        PyStr("* Dogamy and Dogaressa are  \n  thinking about dinner."),
        PyStr("* The dogs are practicing  \n  their marriage."),
        PyStr("* Smells like a sleepover.")>>),
      checkText |-> PyStr("ATK 8 DEF 4\\n* Husband & wife team!\\n  Synchronicity is key."),
      sprites |-> PyDict([idle |-> PyList(<<PyStr("Battle/Enemies/02 - Snowdin/Dogamy + Dogaressa/spr_marriedbattle_0.png")>>)]),
      acts |-> PyList(<<
        PyDict([name |-> PyStr("Check"), effect |-> PyStr("check")]),
        PyDict([
          name |-> PyStr("Roll Around"),
          effect |-> PyStr("roll"),
          text |-> PyStr("* You roll around.\\n* The dogs are amused!"),
          mercyIncrease |-> PyInt(30)]),
        PyDict([
          name |-> PyStr("Pet"),
          effect |-> PyStr("pet"),
          text |-> PyStr("* You pet the dogs.\\n* They wag their tails!"),
          mercyIncrease |-> PyInt(70)])>>),
      attackPatterns |-> PyList(<<
        PyDict([
          name |-> PyStr("Double Axes"),
          duration |-> PyInt(5000),
          waves |-> PyList(<<
            PyDict([time |-> PyInt(0), type |-> PyStr("axes"), count |-> PyInt(2), speed |-> PyInt(3), pattern |-> PyStr("heart")]),
            PyDict([time |-> PyInt(2000), type |-> PyStr("heart_bullets"), count |-> PyInt(8), speed |-> PyFloat(25), pattern |-> PyStr("ring")]),
            PyDict([time |-> PyInt(3500), type |-> PyStr("axes"), count |-> PyInt(2), speed |-> PyFloat(35), pattern |-> PyStr("heart")])>>)])>>)])],
  [id |-> "lesser_dog", data |-> PyDict([
      name |-> PyStr("Lesser Dog"),
      hp |-> PyInt(60),
      attack |-> PyInt(8),
      defense |-> PyInt(0),
      gold |-> PyInt(25),
      exp |-> PyInt(20),
      spareThreshold |-> PyInt(100),
      dialogue |-> PyList(<<
        PyStr("* Lesser Dog appeared!"),
        PyStr("* Lesser Dog is barking  \n  excitedly."),
        PyStr("* Lesser Dog wants to play."),
        PyStr("* Smells like dog treats.")>>),
      checkText |-> PyStr("ATK 8 DEF 0\\n* Wields a deadly battle axe.\\n  Desperate for affection."),
      sprites |-> PyDict([idle |-> PyList(<<PyStr("Battle/Enemies/02 - Snowdin/Lesser Dog/spr_lesserdogbattle_0.png")>>)]),
      acts |-> PyList(<<
        PyDict([name |-> PyStr("Check"), effect |-> PyStr("check")]),
        PyDict([
          name |-> PyStr("Pet"),
          effect |-> PyStr("pet"),
          text |-> PyStr("* You pet Lesser Dog.\\n* It gets more excited!"),
          mercyIncrease |-> PyInt(25)])>>),
      attackPatterns |-> PyList(<<
        PyDict([
          name |-> PyStr("Dog Bark"),
          duration |-> PyInt(4000),
          waves |-> PyList(<<
            PyDict([time |-> PyInt(1000), type |-> PyStr("bark"), count |-> PyInt(1), speed |-> PyInt(4), orientation |-> PyStr("vertical")])>>)])>>)])],
  [id |-> "greater_dog", data |-> PyDict([
      name |-> PyStr("Greater Dog"),
      hp |-> PyInt(105),
      attack |-> PyInt(8),
      defense |-> PyInt(4),
      gold |-> PyInt(40),
      exp |-> PyInt(80),
      spareThreshold |-> PyInt(100),
      dialogue |-> PyList(<<
        PyStr("* Greater Dog shows up!"),
        PyStr("* Greater Dog is watching you  \n  intently."),
        PyStr("* Greater Dog wants some pets."),
        PyStr("* Smells like puppy breath.")>>),
      checkText |-> PyStr("ATK 8 DEF 4\\n* A very excitable dog.\\n  Unable to see enemies."),
      sprites |-> PyDict([idle |-> PyList(<<PyStr("Battle/Enemies/02 - Snowdin/Greater Dog/spr_greatdog_0.png")>>)]),
      acts |-> PyList(<<
        PyDict([name |-> PyStr("Check"), effect |-> PyStr("check")]),
        PyDict([
          name |-> PyStr("Pet"),
          effect |-> PyStr("pet"),
          text |-> PyStr("* You pet Greater Dog.\\n* It's very happy!"),
          mercyIncrease |-> PyInt(33)])>>),
      attackPatterns |-> PyList(<<
        PyDict([
          name |-> PyStr("Dog Attacks"),
          duration |-> PyInt(5000),
          waves |-> PyList(<<
            PyDict([time |-> PyInt(0), type |-> PyStr("dog_head"), speed |-> PyInt(2), color |-> PyStr("blue_white")]),
            PyDict([time |-> PyInt(2500), type |-> PyStr("annoying_dog"), speed |-> PyInt(3), trigger |-> PyStr("movement")])>>)])>>)])],
  [id |-> "temmie", data |-> PyDict([
      name |-> PyStr("Temmie"),
      hp |-> PyInt(5),
      attack |-> PyInt(20),
      defense |-> PyInt(-20),
      gold |-> PyInt(10),
      exp |-> PyInt(0),
      spareThreshold |-> PyInt(100),
      dialogue |-> PyList(<<
        PyStr("* hOI! i'm tEMMIE!"),
        PyStr("* Temmie vibrates intensely."),
        PyStr("* Temmie is flexing."),
        PyStr("* Smells like Temmie Flakes.")>>),
      checkText |-> PyStr("ATK 20 DEF -20\\n* The cutest thing ever!\\n  Also forgot enemy name..."),
      sprites |-> PyDict([idle |-> PyList(<<PyStr("Battle/Enemies/03 - Waterfall/Temmie/spr_temmiebattle_0.png")>>)]),
      acts |-> PyList(<<
        PyDict([name |-> PyStr("Check"), effect |-> PyStr("check")]),
        PyDict([name |-> PyStr("Talk"), effect |-> PyStr("talk"), text |-> PyStr("* You talk to Temmie.\\n* hOI!"), mercyIncrease |-> PyInt(30)]),
        PyDict([
          name |-> PyStr("Flex"),
          effect |-> PyStr("flex"),
          text |-> PyStr("* You flex at Temmie.\\n* Temmie does not approve!"),
          mercyIncrease |-> PyInt(0)])>>),
      attackPatterns |-> PyList(<<
        PyDict([
          name |-> PyStr("Temmie Flakes"),
          duration |-> PyInt(4000),
          waves |-> PyList(<<
            PyDict([
              time |-> PyInt(0),
              type |-> PyStr("projectiles"),
              count |-> PyInt(6),
              speed |-> PyInt(2),
              size |-> PyInt(12),
              side |-> PyStr("top")]),
            PyDict([
              time |-> PyInt(1500),
              type |-> PyStr("projectiles"),
              count |-> PyInt(5),
              speed |-> PyFloat(25),
              size |-> PyInt(12),
              side |-> PyStr("left")])>>)])>>)])],
  [id |-> "mad_dummy", data |-> PyDict([
      name |-> PyStr("Mad Dummy"),
      hp |-> PyInt(200),
      attack |-> PyInt(8),
      defense |-> PyInt(7),
      gold |-> PyInt(0),
      exp |-> PyInt(0),
      spareThreshold |-> PyInt(0),
      dialogue |-> PyList(<<
        PyStr("* Mad Dummy is blocking the way!"),
        PyStr("* Mad Dummy is getting more mad."),
        PyStr("* Mad Dummy is screaming."),
        PyStr("* Smells like cotton and rage.")>>),
      checkText |-> PyStr("ATK 8 DEF 7\\n* Too resilient to give up.\\n  A possessed training dummy."),
      sprites |-> PyDict([idle |-> PyList(<<PyStr("Battle/Enemies/03 - Waterfall/Mad Dummy/spr_maddummy_body.png")>>)]),
      acts |-> PyList(<<
        PyDict([name |-> PyStr("Check"), effect |-> PyStr("check")]),
        PyDict([
          name |-> PyStr("Cheer"),
          effect |-> PyStr("cheer"),
          text |-> PyStr("* You cheer.\\n* Mad Dummy is confused!"),
          mercyIncrease |-> PyInt(33)])>>),
      attackPatterns |-> PyList(<<
        PyDict([
          name |-> PyStr("Dummy Army"),
          duration |-> PyInt(6000),
          waves |-> PyList(<<
            PyDict([time |-> PyInt(0), type |-> PyStr("dummy_swarm"), count |-> PyInt(5), speed |-> PyInt(2)]),
            PyDict([time |-> PyInt(2000), type |-> PyStr("rockets"), count |-> PyInt(3), speed |-> PyFloat(35)]),
            PyDict([time |-> PyInt(4000), type |-> PyStr("knife"), count |-> PyInt(1), speed |-> PyInt(4)])>>)])>>)])],
  [id |-> "royal_guards", data |-> PyDict([
      name |-> PyStr("Royal Guards"),
      hp |-> PyInt(150),
      attack |-> PyInt(9),
      defense |-> PyInt(4),
      gold |-> PyInt(100),
      exp |-> PyInt(140),
      spareThreshold |-> PyInt(100),
      dialogue |-> PyList(<<
        PyStr("* The Royal Guards appear!"),
        PyStr("* 01 and 02 are on duty."),
        PyStr("* The guards stand proudly."),
        PyStr("* Smells like armor polish.")>>),
      checkText |-> PyStr("ATK 9 DEF 4\\n* These two brothers work\\n  together as guards."),
      sprites |-> PyDict([idle |-> PyList(<<PyStr("Battle/Enemies/04 - Hotland/Royal Guards/spr_02battle_0.png")>>)]),
      acts |-> PyList(<<
        PyDict([name |-> PyStr("Check"), effect |-> PyStr("check")]),
        PyDict([
          name |-> PyStr("Clean Armor"),
          effect |-> PyStr("clean"),
          text |-> PyStr("* You clean their armor.\\n* They appreciate it!"),
          mercyIncrease |-> PyInt(50)])>>),
      attackPatterns |-> PyList(<<
        PyDict([
          name |-> PyStr("Guard Combo"),
          duration |-> PyInt(5500),
          waves |-> PyList(<<
            PyDict([
              time |-> PyInt(0),
              type |-> PyStr("projectiles"),
              count |-> PyInt(6),
              speed |-> PyFloat(25),
              size |-> PyInt(15),
              side |-> PyStr("top")]),
            PyDict([time |-> PyInt(2000), type |-> PyStr("star_bullets"), count |-> PyInt(5), speed |-> PyInt(3)]),
            PyDict([
              time |-> PyInt(3500),
              type |-> PyStr("projectiles"),
              count |-> PyInt(7),
              speed |-> PyInt(3),
              size |-> PyInt(15),
              side |-> PyStr("bottom")])>>)])>>)])],
  [id |-> "so_sorry", data |-> PyDict([
      name |-> PyStr("So Sorry"),
      hp |-> PyInt(1100),
      attack |-> PyInt(9),
      defense |-> PyInt(-6),
      gold |-> PyInt(300),
      exp |-> PyInt(1),
      spareThreshold |-> PyInt(100),
      dialogue |-> PyList(<<
        PyStr("* So Sorry appears!"),
        PyStr("* So Sorry is drawing something."),
        PyStr("* So Sorry is apologizing."),
        PyStr("* Smells like art supplies.")>>),
      checkText |-> PyStr("ATK 9 DEF -6\\n* This creature is definitely  \\n  'art' in motion."),
      sprites |-> PyDict([idle |-> PyList(<<PyStr("Battle/Enemies/04 - Hotland/So Sorry/spr_sosorry_normal_0.png")>>)]),
      acts |-> PyList(<<
        PyDict([name |-> PyStr("Check"), effect |-> PyStr("check")]),
        PyDict([
          name |-> PyStr("Draw"),
          effect |-> PyStr("draw"),
          text |-> PyStr("* You draw something nice.\\n* So Sorry is happy!"),
          mercyIncrease |-> PyInt(100)])>>),
      attackPatterns |-> PyList(<<
        PyDict([
          name |-> PyStr("Art Attack"),
          duration |-> PyInt(7000),
          waves |-> PyList(<<
            PyDict([time |-> PyInt(0), type |-> PyStr("tail_slash"), count |-> PyInt(2), speed |-> PyInt(3)]),
            PyDict([time |-> PyInt(2000), type |-> PyStr("paper_balls"), count |-> PyInt(8), speed |-> PyFloat(25)]),
            PyDict([time |-> PyInt(4500), type |-> PyStr("doodle_arms"), count |-> PyInt(4), speed |-> PyInt(3)])>>)])>>)])],
  [id |-> "parsnik", data |-> PyDict([
      name |-> PyStr("Parsnik"),
      hp |-> PyInt(50),
      attack |-> PyInt(8),
      defense |-> PyInt(7),
      gold |-> PyInt(5),
      exp |-> PyInt(5),
      spareThreshold |-> PyInt(100),
      dialogue |-> PyList(<<
        PyStr("* Parsnik shows up!"),
        PyStr("* Parsnik is posing dramatically."),
        PyStr("* Parsnik is being rebellious."),
        PyStr("* Smells like parsnips.")>>),
      checkText |-> PyStr("ATK 8 DEF 7\\n* Hard Mode only.\\n* A rebellious root vegetable."),
      sprites |-> PyDict([idle |-> PyList(<<PyStr("Battle/Enemies/01 - Ruins/Parsnik/spr_parsnikbattle_0.png")>>)]),
      acts |-> PyList(<<
        PyDict([name |-> PyStr("Check"), effect |-> PyStr("check")]),
        PyDict([name |-> PyStr("Devour"), effect |-> PyStr("devour"), text |-> PyStr("* You devour Parsnik."), mercyIncrease |-> PyInt(100)])>>),
      attackPatterns |-> PyList(<<
        PyDict([
          name |-> PyStr("Root Attack"),
          duration |-> PyInt(4000),
          waves |-> PyList(<<
            PyDict([
              time |-> PyInt(0),
              type |-> PyStr("projectiles"),
              count |-> PyInt(5),
              speed |-> PyFloat(25),
              size |-> PyInt(15),
              side |-> PyStr("top")]),
            PyDict([
              time |-> PyInt(2000),
              type |-> PyStr("projectiles"),
              count |-> PyInt(6),
              speed |-> PyInt(3),
              size |-> PyInt(15),
              side |-> PyStr("bottom")])>>)])>>)])],
  [id |-> "moldessa", data |-> PyDict([
      name |-> PyStr("Moldessa"),
      hp |-> PyInt(52),
      attack |-> PyInt(8),
      defense |-> PyInt(5),
      gold |-> PyInt(12),
      exp |-> PyInt(6),
      spareThreshold |-> PyInt(100),
      dialogue |-> PyList(<<
        PyStr("* Moldessa oozes up!"),
        PyStr("* Moldessa is posing."),
        PyStr("* Moldessa wiggles provocatively."),
        PyStr("* Smells like a beauty salon.")>>),
      checkText |-> PyStr("ATK 8 DEF 5\\n* Hard Mode only.\\n* A slime in its prime."),
      sprites |-> PyDict([idle |-> PyList(<<PyStr("Battle/Enemies/01 - Ruins/Moldessa/spr_moldbyggbattle_hardmode_0.png")>>)]),
      acts |-> PyList(<<
        PyDict([name |-> PyStr("Check"), effect |-> PyStr("check")]),
        PyDict([
          name |-> PyStr("Impress"),
          effect |-> PyStr("impress"),
          text |-> PyStr("* You pose. Moldessa is  \\n  impressed!"),
          mercyIncrease |-> PyInt(100)])>>),
      attackPatterns |-> PyList(<<
        PyDict([
          name |-> PyStr("Slime Attack"),
          duration |-> PyInt(4500),
          waves |-> PyList(<<
            PyDict([
              time |-> PyInt(0),
              type |-> PyStr("projectiles"),
              count |-> PyInt(6),
              speed |-> PyInt(2),
              size |-> PyInt(15),
              side |-> PyStr("top")]),
            PyDict([time |-> PyInt(2000), type |-> PyStr("exploding_slime"), count |-> PyInt(3), speed |-> PyFloat(25)])>>)])>>)])],
  [id |-> "migospel", data |-> PyDict([
      name |-> PyStr("Migospel"),
      hp |-> PyInt(60),
      attack |-> PyInt(8),
      defense |-> PyInt(6),
      gold |-> PyInt(8),
      exp |-> PyInt(7),
      spareThreshold |-> PyInt(100),
      dialogue |-> PyList(<<
        PyStr("* Migospel buzzed up!"),
        PyStr("* Migospel is preaching."),
        PyStr("* Migospel is looking for  \\n  followers."),
        PyStr("* Smells like incense.")>>),
      checkText |-> PyStr("ATK 8 DEF 6\\n* Hard Mode only.\\n* A missionary for monsters."),
      sprites |-> PyDict([idle |-> PyList(<<PyStr("Battle/Enemies/01 - Ruins/Migospel/spr_migospbattle_hardmode_0.png")>>)]),
      acts |-> PyList(<<
        PyDict([name |-> PyStr("Check"), effect |-> PyStr("check")]),
        PyDict([
          name |-> PyStr("Pray"),
          effect |-> PyStr("pray"),
          text |-> PyStr("* You pray.\\n* Migospel is pleased!"),
          mercyIncrease |-> PyInt(100)])>>),
      attackPatterns |-> PyList(<<
        PyDict([
          name |-> PyStr("Gospel Attack"),
          duration |-> PyInt(4500),
          waves |-> PyList(<<
            PyDict([
              time |-> PyInt(0),
              type |-> PyStr("projectiles"),
              count |-> PyInt(5),
              speed |-> PyFloat(25),
              size |-> PyInt(15),
              side |-> PyStr("top")]),
            PyDict([
              time |-> PyInt(2000),
              type |-> PyStr("projectiles"),
              count |-> PyInt(6),
              speed |-> PyInt(3),
              size |-> PyInt(15),
              side |-> PyStr("left")])>>)])>>)])],
  [id |-> "glyde", data |-> PyDict([
      name |-> PyStr("Glyde"),
      hp |-> PyInt(220),
      attack |-> PyInt(9),
      defense |-> PyInt(5),
      gold |-> PyInt(120),
      exp |-> PyInt(100),
      spareThreshold |-> PyInt(100),
      dialogue |-> PyList(<<
        PyStr("* Glyde glides in!"),
        PyStr("* Glyde is selling wares."),
        PyStr("* Glyde is looking smug."),
        PyStr("* Smells like expensive cologne.")>>),
      checkText |-> PyStr("ATK 9 DEF 5\\n* A wealthy art dealer.\\n* Trades in rare artifacts."),
      sprites |-> PyDict([idle |-> PyList(<<PyStr("Battle/Enemies/02 - Snowdin/Glyde/spr_glydebattle_0.png")>>)]),
      acts |-> PyList(<<
        PyDict([name |-> PyStr("Check"), effect |-> PyStr("check")]),
        PyDict([
          name |-> PyStr("Pay"),
          effect |-> PyStr("pay"),
          text |-> PyStr("* You pay Glyde.\\n* Glyde is satisfied!"),
          mercyIncrease |-> PyInt(100)])>>),
      attackPatterns |-> PyList(<<
        PyDict([
          name |-> PyStr("Glyde Attack"),
          duration |-> PyInt(5000),
          waves |-> PyList(<<
            PyDict([
              time |-> PyInt(0),
              type |-> PyStr("projectiles"),
              count |-> PyInt(6),
              speed |-> PyFloat(25),
              size |-> PyInt(15),
              side |-> PyStr("top")]),
            PyDict([
              time |-> PyInt(2000),
              type |-> PyStr("projectiles"),
              count |-> PyInt(7),
              speed |-> PyInt(3),
              size |-> PyInt(15),
              side |-> PyStr("left")]),
            PyDict([
              time |-> PyInt(3500),
              type |-> PyStr("projectiles"),
              count |-> PyInt(6),
              speed |-> PyInt(3),
              size |-> PyInt(15),
              side |-> PyStr("right")])>>)])>>)])]
  >>

\* generate_deltarune_enemies.py: ch1_enemies.
ch1_enemies ==
  <<
  PyDict([
      name |-> PyStr("Rudinn"),
      hp |-> PyInt(200),
      attack |-> PyInt(6),
      defense |-> PyInt(0),
      folder |-> PyStr("Rudinn + Rudinn Ranger"),
      dialogue |-> PyList(<<PyStr("* Rudinn blocks the way!"), PyStr("* Rudinn is posing dramatically."), PyStr("* Smells like bubblegum.")>>),
      acts |-> PyList(<<
        PyDict([name |-> PyStr("Check"), effect |-> PyStr("check")]),
        PyDict([
          name |-> PyStr("Compliment"),
          effect |-> PyStr("compliment"),
          text |-> PyStr("* You compliment Rudinn."),
          mercyIncrease |-> PyInt(20)])>>)]),
  PyDict([
      name |-> PyStr("Hathy"),
      hp |-> PyInt(180),
      attack |-> PyInt(5),
      defense |-> PyInt(0),
      folder |-> PyStr("Hathy + Head Hathy"),
      dialogue |-> PyList(<<PyStr("* Hathy blocks the way!"), PyStr("* Hathy adjusts its crown."), PyStr("* Smells like royalty.")>>),
      acts |-> PyList(<<
        PyDict([name |-> PyStr("Check"), effect |-> PyStr("check")]),
        PyDict([name |-> PyStr("Bow"), effect |-> PyStr("bow"), text |-> PyStr("* You bow to Hathy."), mercyIncrease |-> PyInt(30)])>>)]),
  PyDict([
      name |-> PyStr("Jigsawry"),
      hp |-> PyInt(220),
      attack |-> PyInt(7),
      defense |-> PyInt(1),
      folder |-> PyStr("Jigsawry"),
      dialogue |-> PyList(<<PyStr("* Jigsawry attacks!"), PyStr("* Jigsawry is fitting together."), PyStr("* Smells like cardboard.")>>),
      acts |-> PyList(<<
        PyDict([name |-> PyStr("Check"), effect |-> PyStr("check")]),
        PyDict([
          name |-> PyStr("Compliment"),
          effect |-> PyStr("compliment"),
          text |-> PyStr("* You compliment Jigsawry's puzzle."),
          mercyIncrease |-> PyInt(25)])>>)]),
  PyDict([
      name |-> PyStr("Ponman"),
      hp |-> PyInt(240),
      attack |-> PyInt(8),
      defense |-> PyInt(2),
      folder |-> PyStr("Ponman"),
      dialogue |-> PyList(<<PyStr("* Ponman trots forward!"), PyStr("* Ponman neighs proudly."), PyStr("* Smells like hay.")>>),
      acts |-> PyList(<<
        PyDict([name |-> PyStr("Check"), effect |-> PyStr("check")]),
        PyDict([name |-> PyStr("Pet"), effect |-> PyStr("pet"), text |-> PyStr("* You pet Ponman."), mercyIncrease |-> PyInt(30)])>>)]),
  PyDict([
      name |-> PyStr("Bloxer"),
      hp |-> PyInt(280),
      attack |-> PyInt(9),
      defense |-> PyInt(2),
      folder |-> PyStr("Bloxer"),
      dialogue |-> PyList(<<PyStr("* Bloxer blocks your path!"), PyStr("* Bloxer is training."), PyStr("* Smells like a gym.")>>),
      acts |-> PyList(<<
        PyDict([name |-> PyStr("Check"), effect |-> PyStr("check")]),
        PyDict([name |-> PyStr("Spar"), effect |-> PyStr("spar"), text |-> PyStr("* You spar with Bloxer."), mercyIncrease |-> PyInt(30)])>>)]),
  PyDict([
      name |-> PyStr("Starwalker"),
      hp |-> PyInt(300),
      attack |-> PyInt(10),
      defense |-> PyInt(3),
      folder |-> PyStr("Starwalker"),
      dialogue |-> PyList(<<
        PyStr("* These birds are pissing me off..."),
        PyStr("* I'm the original                  Starwalker."),
        PyStr("* Smells like stardust.")>>),
      acts |-> PyList(<<
        PyDict([name |-> PyStr("Check"), effect |-> PyStr("check")]),
        PyDict([
          name |-> PyStr("Original"),
          effect |-> PyStr("original"),
          text |-> PyStr("* You acknowledge the original        Starwalker."),
          mercyIncrease |-> PyInt(50)])>>)])
  >>

\* generate_deltarune_enemies.py: ch2_enemies.
ch2_enemies ==
  <<
  PyDict([
      name |-> PyStr("Virovirokun"),
      hp |-> PyInt(250),
      attack |-> PyInt(8),
      defense |-> PyInt(1),
      folder |-> PyStr("Virovirokun"),
      dialogue |-> PyList(<<PyStr("* Virovirokun is loading..."), PyStr("* Virovirokun downloaded something."), PyStr("* Smells like malware.")>>),
      acts |-> PyList(<<
        PyDict([name |-> PyStr("Check"), effect |-> PyStr("check")]),
        PyDict([name |-> PyStr("Clean"), effect |-> PyStr("clean"), text |-> PyStr("* You clean Virovirokun."), mercyIncrease |-> PyInt(30)])>>)]),
  PyDict([
      name |-> PyStr("Ambyu-Lance"),
      hp |-> PyInt(270),
      attack |-> PyInt(9),
      defense |-> PyInt(2),
      folder |-> PyStr("Ambyu Lance"),
      dialogue |-> PyList(<<PyStr("* Ambyu-Lance speeds forward!"), PyStr("* Ambyu-Lance sirens loudly."), PyStr("* Smells like antiseptic.")>>),
      acts |-> PyList(<<
        PyDict([name |-> PyStr("Check"), effect |-> PyStr("check")]),
        PyDict([
          name |-> PyStr("Call"),
          effect |-> PyStr("call"),
          text |-> PyStr("* You call for help. Ambyu-Lance is pleased."),
          mercyIncrease |-> PyInt(40)])>>)]),
  PyDict([
      name |-> PyStr("Werewire"),
      hp |-> PyInt(300),
      attack |-> PyInt(10),
      defense |-> PyInt(2),
      folder |-> PyStr("Werewire"),
      dialogue |-> PyList(<<PyStr("* Werewire prowls closer!"), PyStr("* Werewire howls at the moon."), PyStr("* Smells like copper.")>>),
      acts |-> PyList(<<
        PyDict([name |-> PyStr("Check"), effect |-> PyStr("check")]),
        PyDict([name |-> PyStr("Pet"), effect |-> PyStr("pet"), text |-> PyStr("* You pet Werewire."), mercyIncrease |-> PyInt(30)])>>)]),
  PyDict([
      name |-> PyStr("Tasque"),
      hp |-> PyInt(230),
      attack |-> PyInt(8),
      defense |-> PyInt(1),
      folder |-> PyStr("Tasque"),
      dialogue |-> PyList(<<PyStr("* Tasque obeys orders!"), PyStr("* Tasque meows electronically."), PyStr("* Smells like cat food.")>>),
      acts |-> PyList(<<
        PyDict([name |-> PyStr("Check"), effect |-> PyStr("check")]),
        PyDict([name |-> PyStr("Pet"), effect |-> PyStr("pet"), text |-> PyStr("* You pet Tasque. It purrs."), mercyIncrease |-> PyInt(35)])>>)]),
  PyDict([
      name |-> PyStr("Maus"),
      hp |-> PyInt(200),
      attack |-> PyInt(7),
      defense |-> PyInt(0),
      folder |-> PyStr("Maus"),
      dialogue |-> PyList(<<PyStr("* Maus clicks around!"), PyStr("* Maus is squeaking."), PyStr("* Smells like circuits.")>>),
      acts |-> PyList(<<
        PyDict([name |-> PyStr("Check"), effect |-> PyStr("check")]),
        PyDict([name |-> PyStr("Click"), effect |-> PyStr("click"), text |-> PyStr("* You click on Maus."), mercyIncrease |-> PyInt(25)])>>)]),
  PyDict([
      name |-> PyStr("Swatchling"),
      hp |-> PyInt(350),
      attack |-> PyInt(11),
      defense |-> PyInt(3),
      folder |-> PyStr("Swatchling"),
      dialogue |-> PyList(<<PyStr("* Swatchling appears!"), PyStr("* Swatchling adjusts their palette."), PyStr("* Smells like paint.")>>),
      acts |-> PyList(<<
        PyDict([name |-> PyStr("Check"), effect |-> PyStr("check")]),
        PyDict([
          name |-> PyStr("Compliment"),
          effect |-> PyStr("compliment"),
          text |-> PyStr("* You compliment Swatchling's colors."),
          mercyIncrease |-> PyInt(40)])>>)])
  >>

\* generate_deltarune_bosses.py: bosses.
bosses ==
  <<
  PyDict([
      name |-> PyStr("Jevil"),
      chapter |-> PyStr("Ch1"),
      folder |-> PyStr("Jevil/Body"),
      hp |-> PyInt(3500),
      attack |-> PyInt(12),
      defense |-> PyInt(10),
      dialogue |-> PyList(<<PyStr("* CHAOS, CHAOS!"), PyStr("* I CAN DO ANYTHING!"), PyStr("* Jevil laughs maniacally."), PyStr("* Smells like chaos.")>>),
      checkText |-> PyStr("ATK 12 DEF 10\\n* The Joker Card. Can do anything."),
      acts |-> PyList(<<
        PyDict([name |-> PyStr("Check"), effect |-> PyStr("check")]),
        PyDict([
          name |-> PyStr("Pirouette"),
          effect |-> PyStr("pirouette"),
          text |-> PyStr("* You pirouette. Jevil is amused!"),
          mercyIncrease |-> PyInt(10)]),
        PyDict([name |-> PyStr("Hypnosis"), effect |-> PyStr("hypnosis"), text |-> PyStr("* You hypnotize Jevil..."), mercyIncrease |-> PyInt(15)])>>),
      attackPatterns |-> PyList(<<
        PyDict([
          name |-> PyStr("Chaos Carousel"),
          duration |-> PyInt(6000),
          waves |-> PyList(<<
            PyDict([time |-> PyInt(0), type |-> PyStr("carousel"), count |-> PyInt(8), speed |-> PyInt(3), pattern |-> PyStr("circular")]),
            PyDict([time |-> PyInt(2000), type |-> PyStr("carousel"), count |-> PyInt(12), speed |-> PyFloat(35), pattern |-> PyStr("spiral")]),
            PyDict([time |-> PyInt(4000), type |-> PyStr("devilsknife"), count |-> PyInt(4), speed |-> PyInt(4)])>>)])>>)]),
  PyDict([
      name |-> PyStr("King"),
      chapter |-> PyStr("Ch1"),
      folder |-> PyStr("King/Ch1"),
      hp |-> PyInt(4000),
      attack |-> PyInt(13),
      defense |-> PyInt(8),
      dialogue |-> PyList(<<
        PyStr("* The King of Spades attacks!"),
        PyStr("* King laughs wickedly."),
        PyStr("* King readies his weapon."),
        PyStr("* Smells like tyranny.")>>),
      checkText |-> PyStr("ATK 13 DEF 8\\n* The King of the Card Kingdom."),
      acts |-> PyList(<<
        PyDict([name |-> PyStr("Check"), effect |-> PyStr("check")]),
        PyDict([name |-> PyStr("Pacify"), effect |-> PyStr("pacify"), text |-> PyStr("* You try to calm King down..."), mercyIncrease |-> PyInt(0)])>>),
      attackPatterns |-> PyList(<<
        PyDict([
          name |-> PyStr("Spade Attack"),
          duration |-> PyInt(5500),
          waves |-> PyList(<<
            PyDict([time |-> PyInt(0), type |-> PyStr("spades"), count |-> PyInt(8), speed |-> PyInt(3), side |-> PyStr("top")]),
            PyDict([time |-> PyInt(1500), type |-> PyStr("spades"), count |-> PyInt(10), speed |-> PyFloat(35), side |-> PyStr("all")]),
            PyDict([time |-> PyInt(3500), type |-> PyStr("spades"), count |-> PyInt(15), speed |-> PyInt(4), side |-> PyStr("all")])>>)])>>)]),
  PyDict([
      name |-> PyStr("Spamton NEO"),
      chapter |-> PyStr("Ch2"),
      folder |-> PyStr("Spamton NEO/Parts"),
      hp |-> PyInt(5000),
      attack |-> PyInt(14),
      defense |-> PyInt(10),
      dialogue |-> PyList(<<
        PyStr("* NOW'S YOUR CHANCE TO BE A [Big Shot]!"),
        PyStr("* SPAMTON NEO attacks!"),
        PyStr("* You hear ringing phones."),
        PyStr("* Smells like hyperlink blocked.")>>),
      checkText |-> PyStr("ATK 14 DEF 10\\n* NOW'S YOUR CHANCE TO BE A [Big Shot]"),
      acts |-> PyList(<<
        PyDict([name |-> PyStr("Check"), effect |-> PyStr("check")]),
        PyDict([name |-> PyStr("[Call]"), effect |-> PyStr("call"), text |-> PyStr("* You try to call someone..."), mercyIncrease |-> PyInt(5)]),
        PyDict([name |-> PyStr("[Cut Cable]"), effect |-> PyStr("cut"), text |-> PyStr("* You cut a cable."), mercyIncrease |-> PyInt(20)])>>),
      attackPatterns |-> PyList(<<
        PyDict([
          name |-> PyStr("Pipis Attack"),
          duration |-> PyInt(6000),
          waves |-> PyList(<<
            PyDict([time |-> PyInt(0), type |-> PyStr("pipis"), count |-> PyInt(5), speed |-> PyFloat(25)]),
            PyDict([time |-> PyInt(2000), type |-> PyStr("big_shot"), count |-> PyInt(3), speed |-> PyInt(4)]),
            PyDict([time |-> PyInt(4000), type |-> PyStr("pipis"), count |-> PyInt(8), speed |-> PyInt(3)])>>)])>>)]),
  PyDict([
      name |-> PyStr("Queen"),
      chapter |-> PyStr("Ch2"),
      folder |-> PyStr("Queen/Portraits"),
      hp |-> PyInt(4500),
      attack |-> PyInt(13),
      defense |-> PyInt(9),
      dialogue |-> PyList(<<
        PyStr("* Queen Attacks Lmao"),
        PyStr("* Queen adjusts her glass."),
        PyStr("* Queen is typing."),
        PyStr("* Smells like battery acid.")>>),
      checkText |-> PyStr("ATK 13 DEF 9\\n* The Queen of the Cyber World."),
      acts |-> PyList(<<
        PyDict([name |-> PyStr("Check"), effect |-> PyStr("check")]),
        PyDict([
          name |-> PyStr("Compliment"),
          effect |-> PyStr("compliment"),
          text |-> PyStr("* You compliment Queen's management style."),
          mercyIncrease |-> PyInt(15)])>>),
      attackPatterns |-> PyList(<<
        PyDict([
          name |-> PyStr("Acid Attack"),
          duration |-> PyInt(5500),
          waves |-> PyList(<<
            PyDict([time |-> PyInt(0), type |-> PyStr("acid"), count |-> PyInt(6), speed |-> PyInt(3), side |-> PyStr("top")]),
            PyDict([time |-> PyInt(2000), type |-> PyStr("acid"), count |-> PyInt(8), speed |-> PyFloat(35), side |-> PyStr("all")]),
            PyDict([time |-> PyInt(4000), type |-> PyStr("acid"), count |-> PyInt(10), speed |-> PyInt(4), side |-> PyStr("all")])>>)])>>)]),
  PyDict([
      name |-> PyStr("Tasque Manager"),
      chapter |-> PyStr("Ch2"),
      folder |-> PyStr("Tasque Manager/Ch2"),
      hp |-> PyInt(3800),
      attack |-> PyInt(12),
      defense |-> PyInt(8),
      dialogue |-> PyList(<<
        PyStr("* Tasque Manager cracks her whip!"),
        PyStr("* Tasque Manager gives orders."),
        PyStr("* Everything is orderly."),
        PyStr("* Smells like order.")>>),
      checkText |-> PyStr("ATK 12 DEF 8\\n* Manages all the Tasques."),
      acts |-> PyList(<<
        PyDict([name |-> PyStr("Check"), effect |-> PyStr("check")]),
        PyDict([name |-> PyStr("Pet"), effect |-> PyStr("pet"), text |-> PyStr("* You try to pet Tasque Manager..."), mercyIncrease |-> PyInt(10)]),
        PyDict([
          name |-> PyStr("Compliment"),
          effect |-> PyStr("compliment"),
          text |-> PyStr("* You compliment her management."),
          mercyIncrease |-> PyInt(20)])>>),
      attackPatterns |-> PyList(<<
        PyDict([
          name |-> PyStr("Tasque Swarm"),
          duration |-> PyInt(5000),
          waves |-> PyList(<<
            PyDict([time |-> PyInt(0), type |-> PyStr("tasques"), count |-> PyInt(4), speed |-> PyInt(3)]),
            PyDict([time |-> PyInt(1500), type |-> PyStr("whip"), count |-> PyInt(6), speed |-> PyInt(4)]),
            PyDict([time |-> PyInt(3000), type |-> PyStr("tasques"), count |-> PyInt(6), speed |-> PyFloat(35)])>>)])>>)]),
  PyDict([
      name |-> PyStr("Sweet Cap'n Cakes"),
      chapter |-> PyStr("Ch2"),
      folder |-> PyStr("Sweet Cap_n Cakes/Sweet"),
      hp |-> PyInt(3600),
      attack |-> PyInt(11),
      defense |-> PyInt(7),
      dialogue |-> PyList(<<
        PyStr("* Sweet, Cap'n, and K_K attack in harmony!"),
        PyStr("* They're making music."),
        PyStr("* The beat drops."),
        PyStr("* Smells like batteries and sugar.")>>),
      checkText |-> PyStr("ATK 11 DEF 7\\n* Three musical entrepreneurs."),
      acts |-> PyList(<<
        PyDict([name |-> PyStr("Check"), effect |-> PyStr("check")]),
        PyDict([name |-> PyStr("Dance"), effect |-> PyStr("dance"), text |-> PyStr("* You dance to the music!"), mercyIncrease |-> PyInt(30)]),
        PyDict([
          name |-> PyStr("Applaud"),
          effect |-> PyStr("applaud"),
          text |-> PyStr("* You applaud their performance."),
          mercyIncrease |-> PyInt(25)])>>),
      attackPatterns |-> PyList(<<
        PyDict([
          name |-> PyStr("Musical Notes"),
          duration |-> PyInt(5500),
          waves |-> PyList(<<
            PyDict([time |-> PyInt(0), type |-> PyStr("notes"), count |-> PyInt(8), speed |-> PyInt(3), pattern |-> PyStr("musical")]),
            PyDict([time |-> PyInt(2000), type |-> PyStr("notes"), count |-> PyInt(12), speed |-> PyFloat(35), pattern |-> PyStr("musical")]),
            PyDict([time |-> PyInt(4000), type |-> PyStr("notes"), count |-> PyInt(10), speed |-> PyInt(4), pattern |-> PyStr("musical")])>>)])>>)])
  >>

----------------------------------------------------------------------------
(* Paths and the file system *)

\* os.path.join(a, b) for a relative b
join(a, b) == a \o "/" \o b

LastSlash(p) == CHOOSE k \in 1..Len(p) : CharAt(p, k) = "/" /\ ~HasChar(SubSeq(p, k + 1, Len(p)), "/")

\* os.path.dirname
dirname(p) == IF HasChar(p, "/") THEN SubSeq(p, 1, LastSlash(p) - 1) ELSE ""

\* os.path.basename
basename(p) == IF HasChar(p, "/") THEN SubSeq(p, LastSlash(p) + 1, Len(p)) ELSE p

\* how the operating system resolves a path given to open() or makedirs()
abspath(dir, p) == IF StartsWith(p, "/") THEN p ELSE join(dir, p)

\* an absolute path's directory and every directory above it, the root left out
Ancestors(p) == {SubSeq(p, 1, k - 1) : k \in {n \in 2..Len(p) : CharAt(p, n) = "/"}} \cup {p}

\* os.makedirs(p, exist_ok=True): p and its missing parents exist afterwards
makedirs(ds, dir, p) == ds \cup Ancestors(abspath(dir, p))

\* open(p, 'w') succeeds when p's directory exists and p is not itself a directory
CanOpen(ds, dir, p) == dirname(abspath(dir, p)) \in ds /\ abspath(dir, p) \notin ds

\* what a file holds: a JSON token tree, nothing (just truncated), or a cut-off write
EmptyFile == [j |-> "empty"]
PartialFile == [j |-> "partial"]
StaleFile == [j |-> "string", lit |-> "stale"]
IsJson(c) == c.j \in {"string", "number", "array", "object"}

\* a variant of Truncate for open(p, 'a'): what the file held stays
Truncate_append(fs, path) == [q \in (DOMAIN fs) \cup {path} |-> IF q \in DOMAIN fs THEN fs[q] ELSE EmptyFile]

\* a variant of Truncate that empties the file's directory before it creates the file
Truncate_wipeDir(fs, path) ==
  [q \in {p \in DOMAIN fs : dirname(p) # dirname(path)} \cup {path} |->
     IF q = path THEN EmptyFile ELSE fs[q]]

\* open(p, 'w'): the file exists afterwards and is empty, whatever it held
Truncate(fs, path) == [q \in (DOMAIN fs) \cup {path} |-> IF q = path THEN EmptyFile ELSE fs[q]]

\* f.write at the position of an open file: the text follows what the file holds
WriteFile(fs, path, content) ==
  [q \in DOMAIN fs |->
     IF q # path THEN fs[q]
     ELSE IF fs[q] = EmptyFile THEN content
     ELSE [j |-> "concat", head |-> fs[q], tail |-> content]]

NoFile == ""
NoError == ""

----------------------------------------------------------------------------
(* generate_bosses_old.py *)

OUTPUT_DIR_bosses == "/workspaces/Under-Delta-Tale-Rune-Fight-Sim/data/enemies/bosses"

\* create_boss_json: filename = os.path.join(OUTPUT_DIR, f"{boss_id}.json")
create_boss_json_filename(boss_id) == join(OUTPUT_DIR_bosses, boss_id \o ".json")

\* a variant of create_boss_json_data that writes the record without its attack patterns
create_boss_json_data_noPatterns(boss_data) == SetItem(boss_data, "attackPatterns", PyList(<<>>))

\* create_boss_json: json.dump(boss_data, f, indent=4)
create_boss_json_data(boss_data) == boss_data

----------------------------------------------------------------------------
(* generate_enemies.py *)

\* a variant of OUTPUT_DIR_enemies that names the directory relative to the working directory
OUTPUT_DIR_enemies_relative == "data/enemies"

OUTPUT_DIR_enemies == "/workspaces/Under-Delta-Tale-Rune-Fight-Sim/data/enemies"

\* a variant of DefaultAttackPatterns whose pattern ends before its last wave
DefaultAttackPatterns_short ==
  PyList(<<
    PyDict([
      name |-> PyStr("Default Attack"),
      duration |-> PyInt(2000),
      waves |-> PyList(<<
        PyDict([time |-> PyInt(0), type |-> PyStr("projectiles"), count |-> PyInt(5),
                speed |-> PyInt(2), size |-> PyInt(15), side |-> PyStr("top")]),
        PyDict([time |-> PyInt(1500), type |-> PyStr("projectiles"), count |-> PyInt(4),
                speed |-> PyFloat(25), size |-> PyInt(15), side |-> PyStr("left")]),
        PyDict([time |-> PyInt(2500), type |-> PyStr("projectiles"), count |-> PyInt(4),
                speed |-> PyFloat(25), size |-> PyInt(15), side |-> PyStr("right")])>>)])>>)

\* a variant of DefaultAttackPatterns that lists its last wave before its second
DefaultAttackPatterns_lastWaveSecond ==
  PyList(<<
    PyDict([
      name |-> PyStr("Default Attack"),
      duration |-> PyInt(4000),
      waves |-> PyList(<<
        PyDict([time |-> PyInt(0), type |-> PyStr("projectiles"), count |-> PyInt(5),
                speed |-> PyInt(2), size |-> PyInt(15), side |-> PyStr("top")]),
        PyDict([time |-> PyInt(2500), type |-> PyStr("projectiles"), count |-> PyInt(4),
                speed |-> PyFloat(25), size |-> PyInt(15), side |-> PyStr("left")]),
        PyDict([time |-> PyInt(1500), type |-> PyStr("projectiles"), count |-> PyInt(4),
                speed |-> PyFloat(25), size |-> PyInt(15), side |-> PyStr("right")])>>)])>>)

\* the literal create_enemy_json assigns to enemy_data["attackPatterns"]
DefaultAttackPatterns ==
  PyList(<<
    PyDict([
      name |-> PyStr("Default Attack"),
      duration |-> PyInt(4000),
      waves |-> PyList(<<
        PyDict([time |-> PyInt(0), type |-> PyStr("projectiles"), count |-> PyInt(5),
                speed |-> PyInt(2), size |-> PyInt(15), side |-> PyStr("top")]),
        PyDict([time |-> PyInt(1500), type |-> PyStr("projectiles"), count |-> PyInt(4),
                speed |-> PyFloat(25), size |-> PyInt(15), side |-> PyStr("left")]),
        PyDict([time |-> PyInt(2500), type |-> PyStr("projectiles"), count |-> PyInt(4),
                speed |-> PyFloat(25), size |-> PyInt(15), side |-> PyStr("right")])>>)])>>)

\* a variant of create_enemy_json_data that adds the default pattern to the
\* patterns a record already has
create_enemy_json_data_extend(enemy_data) ==
  IF ~Has(enemy_data, "attackPatterns")
    THEN SetItem(enemy_data, "attackPatterns", DefaultAttackPatterns)
    ELSE SetItem(enemy_data, "attackPatterns",
                 PyList(Get(enemy_data, "attackPatterns").v \o DefaultAttackPatterns.v))

\* a variant of create_enemy_json_data that also replaces an empty list
\* (if not enemy_data.get("attackPatterns"))
create_enemy_json_data_emptyToo(enemy_data) ==
  IF ~Has(enemy_data, "attackPatterns") \/ Get(enemy_data, "attackPatterns") = PyList(<<>>)
    THEN SetItem(enemy_data, "attackPatterns", DefaultAttackPatterns)
    ELSE enemy_data

\* a variant of create_enemy_json_data that adds nothing
create_enemy_json_data_asis(enemy_data) == enemy_data

\* create_enemy_json: if "attackPatterns" not in enemy_data: enemy_data["attackPatterns"] = [...]
\* enemy_data is the table's own dict, so this is also the table entry after the call
create_enemy_json_data(enemy_data) ==
  IF ~Has(enemy_data, "attackPatterns")
    THEN SetItem(enemy_data, "attackPatterns", DefaultAttackPatterns)
    ELSE enemy_data

\* create_enemy_json: filename = os.path.join(OUTPUT_DIR, f"{enemy_id}.json")
create_enemy_json_filename(enemy_id) == join(OUTPUT_DIR_enemies, enemy_id \o ".json")

----------------------------------------------------------------------------
(* generate_missing_undertale_enemies.py *)

\* create_enemy_json: filename = f"data/enemies/{enemy_id}.json"
create_enemy_json_missing_filename(enemy_id) == "data/enemies/" \o enemy_id \o ".json"

\* a variant of create_enemy_json_missing_data that writes gold as a float (20 as 20.0)
create_enemy_json_missing_data_floatGold(enemy_data) ==
  SetItem(enemy_data, "gold", PyFloat(10 * Get(enemy_data, "gold").v))

\* create_enemy_json: json.dump(enemy_data, f, indent=4)
create_enemy_json_missing_data(enemy_data) == enemy_data

----------------------------------------------------------------------------
(* generate_deltarune_enemies.py *)

\* main: output_dir = "data/enemies/deltarune"
output_dir_enemies == "data/enemies/deltarune"

\* a variant of generate_enemy_json_filename without .replace('-', '_')
generate_enemy_json_filename_hyphen(enemy) ==
  replace(lower(Get(enemy, "name").v), " ", "_") \o ".json"

\* generate_enemy_json: filename, filepath
generate_enemy_json_filename(enemy) ==
  replace(replace(lower(Get(enemy, "name").v), " ", "_"), "-", "_") \o ".json"

generate_enemy_json_filepath(enemy, output_dir) == join(output_dir, generate_enemy_json_filename(enemy))

\* a variant of generate_enemy_json_sprite_base that tests for "ch2" instead
generate_enemy_json_sprite_base_ch2Test(enemy, chapter) ==
  IF chapter = "ch2"
    THEN "Deltarune Sprites/Characters/Enemies/Ch2/" \o Get(enemy, "folder").v \o "/"
    ELSE "Deltarune Sprites/Characters/Enemies/Ch1/" \o Get(enemy, "folder").v \o "/"

\* generate_enemy_json: sprite_base
generate_enemy_json_sprite_base(enemy, chapter) ==
  IF chapter = "ch1"
    THEN "Deltarune Sprites/Characters/Enemies/Ch1/" \o Get(enemy, "folder").v \o "/"
    ELSE "Deltarune Sprites/Characters/Enemies/Ch2/" \o Get(enemy, "folder").v \o "/"

\* a variant of generate_enemy_json_checkText with the two fields exchanged
generate_enemy_json_checkText_swapped(enemy, chapter) ==
  "ATK " \o IntToStr(Get(enemy, "defense").v) \o " DEF " \o IntToStr(Get(enemy, "attack").v)
    \o "\\n* A Darkner from " \o upper(chapter) \o "."

\* generate_enemy_json: the f-string of data["checkText"]
generate_enemy_json_checkText(enemy, chapter) ==
  "ATK " \o IntToStr(Get(enemy, "attack").v) \o " DEF " \o IntToStr(Get(enemy, "defense").v)
    \o "\\n* A Darkner from " \o upper(chapter) \o "."

\* a variant of generate_enemy_json_data that keeps only the first act of the enemy
generate_enemy_json_data_firstActOnly(enemy, chapter) ==
  PyDict([
    name |-> Get(enemy, "name"),
    hp |-> Get(enemy, "hp"),
    attack |-> Get(enemy, "attack"),
    defense |-> Get(enemy, "defense"),
    gold |-> PyInt(10),
    exp |-> PyInt(15),
    spareThreshold |-> PyInt(100),
    dialogue |-> Get(enemy, "dialogue"),
    checkText |-> PyStr(generate_enemy_json_checkText(enemy, chapter)),
    sprites |-> PyDict([idle |-> PyStr(generate_enemy_json_sprite_base(enemy, chapter) \o "idle_0.png")]),
    acts |-> PyList(<<Get(enemy, "acts").v[1]>>),
    attackPatterns |-> PyList(<<
      PyDict([
        name |-> PyStr("Default Attack"),
        duration |-> PyInt(4000),
        waves |-> PyList(<<
          PyDict([time |-> PyInt(0), type |-> PyStr("projectiles"), count |-> PyInt(5),
                  speed |-> PyFloat(25), size |-> PyInt(15), side |-> PyStr("top")]),
          PyDict([time |-> PyInt(1500), type |-> PyStr("projectiles"), count |-> PyInt(4),
                  speed |-> PyInt(3), size |-> PyInt(15), side |-> PyStr("left")])>>)])>>)])

\* generate_enemy_json: data
generate_enemy_json_data(enemy, chapter) ==
  PyDict([
    name |-> Get(enemy, "name"),
    hp |-> Get(enemy, "hp"),
    attack |-> Get(enemy, "attack"),
    defense |-> Get(enemy, "defense"),
    gold |-> PyInt(10),
    exp |-> PyInt(15),
    spareThreshold |-> PyInt(100),
    dialogue |-> Get(enemy, "dialogue"),
    checkText |-> PyStr(generate_enemy_json_checkText(enemy, chapter)),
    sprites |-> PyDict([idle |-> PyStr(generate_enemy_json_sprite_base(enemy, chapter) \o "idle_0.png")]),
    acts |-> Get(enemy, "acts"),
    attackPatterns |-> PyList(<<
      PyDict([
        name |-> PyStr("Default Attack"),
        duration |-> PyInt(4000),
        waves |-> PyList(<<
          PyDict([time |-> PyInt(0), type |-> PyStr("projectiles"), count |-> PyInt(5),
                  speed |-> PyFloat(25), size |-> PyInt(15), side |-> PyStr("top")]),
          PyDict([time |-> PyInt(1500), type |-> PyStr("projectiles"), count |-> PyInt(4),
                  speed |-> PyInt(3), size |-> PyInt(15), side |-> PyStr("left")])>>)])>>)])

----------------------------------------------------------------------------
(* generate_deltarune_bosses.py *)

\* main: output_dir = "data/enemies/deltarune/bosses"
output_dir_bosses == "data/enemies/deltarune/bosses"

\* a variant of generate_boss_json_filename without .replace("'", '')
generate_boss_json_filename_apostrophe(boss) ==
  replace(replace(lower(Get(boss, "name").v), " ", "_"), "-", "_") \o ".json"

\* generate_boss_json: name_clean, filename, filepath
generate_boss_json_filename(boss) ==
  replace(replace(replace(lower(Get(boss, "name").v), " ", "_"), "'", ""), "-", "_") \o ".json"

generate_boss_json_filepath(boss, output_dir) == join(output_dir, generate_boss_json_filename(boss))

\* a variant of generate_boss_json_data that puts a Check act of its own first
generate_boss_json_data_addCheck(boss) ==
  PyDict([
    name |-> Get(boss, "name"),
    hp |-> Get(boss, "hp"),
    attack |-> Get(boss, "attack"),
    defense |-> Get(boss, "defense"),
    gold |-> PyInt(0),
    exp |-> PyInt(0),
    spareThreshold |-> PyInt(0),
    dialogue |-> Get(boss, "dialogue"),
    checkText |-> Get(boss, "checkText"),
    sprites |-> PyDict([idle |-> PyStr("Deltarune Sprites/Characters/Bosses/" \o Get(boss, "chapter").v
                                       \o "/" \o Get(boss, "folder").v \o "/" \o "idle_0.png")]),
    acts |-> PyList(<<PyDict([name |-> PyStr("Check"), effect |-> PyStr("check")])>>
                    \o Get(boss, "acts").v),
    attackPatterns |-> Get(boss, "attackPatterns")])

\* a variant of generate_boss_json_data that looks for the sprite under Enemies
generate_boss_json_data_enemySprites(boss) ==
  PyDict([
    name |-> Get(boss, "name"),
    hp |-> Get(boss, "hp"),
    attack |-> Get(boss, "attack"),
    defense |-> Get(boss, "defense"),
    gold |-> PyInt(0),
    exp |-> PyInt(0),
    spareThreshold |-> PyInt(0),
    dialogue |-> Get(boss, "dialogue"),
    checkText |-> Get(boss, "checkText"),
    sprites |-> PyDict([idle |-> PyStr("Deltarune Sprites/Characters/Enemies/" \o Get(boss, "chapter").v
                                       \o "/" \o Get(boss, "folder").v \o "/" \o "idle_0.png")]),
    acts |-> Get(boss, "acts"),
    attackPatterns |-> Get(boss, "attackPatterns")])

\* generate_boss_json: data
generate_boss_json_data(boss) ==
  PyDict([
    name |-> Get(boss, "name"),
    hp |-> Get(boss, "hp"),
    attack |-> Get(boss, "attack"),
    defense |-> Get(boss, "defense"),
    gold |-> PyInt(0),
    exp |-> PyInt(0),
    spareThreshold |-> PyInt(0),
    dialogue |-> Get(boss, "dialogue"),
    checkText |-> Get(boss, "checkText"),
    sprites |-> PyDict([idle |-> PyStr("Deltarune Sprites/Characters/Bosses/" \o Get(boss, "chapter").v
                                       \o "/" \o Get(boss, "folder").v \o "/" \o "idle_0.png")]),
    acts |-> Get(boss, "acts"),
    attackPatterns |-> Get(boss, "attackPatterns")])


----------------------------------------------------------------------------
(* One process running one script *)

Scripts ==
  {"generate_bosses_old", "generate_enemies", "generate_missing_undertale_enemies",
   "generate_deltarune_enemies", "generate_deltarune_bosses"}

\* the module-level tables a script builds when it is loaded
Tables(s) ==
  CASE s = "generate_bosses_old" -> [BOSSES |-> BOSSES]
    [] s = "generate_enemies" -> [ENEMIES |-> ENEMIES]
    [] s = "generate_missing_undertale_enemies" -> [ENEMIES |-> ENEMIES_missing]
    [] s = "generate_deltarune_enemies" -> [ch1_enemies |-> ch1_enemies, ch2_enemies |-> ch2_enemies]
    [] s = "generate_deltarune_bosses" -> [bosses |-> bosses]

\* the calls main() makes, in order: which table entry, and the chapter argument
CallsOn(m, tbl, chapter) == [k \in 1..Len(m[tbl]) |-> [tbl |-> tbl, idx |-> k, chapter |-> chapter]]

\* a variant of Calls whose second Deltarune loop runs over ch1_enemies again
Calls_ch1Twice(s, m) ==
  CASE s = "generate_bosses_old" -> CallsOn(m, "BOSSES", "")
    [] s = "generate_enemies" -> CallsOn(m, "ENEMIES", "")
    [] s = "generate_missing_undertale_enemies" -> CallsOn(m, "ENEMIES", "")
    [] s = "generate_deltarune_enemies" ->
         CallsOn(m, "ch1_enemies", "ch1") \o CallsOn(m, "ch1_enemies", "ch2")
    [] s = "generate_deltarune_bosses" -> CallsOn(m, "bosses", "")

\* a variant of Calls whose loops run over ch2_enemies before ch1_enemies
Calls_ch2First(s, m) ==
  CASE s = "generate_bosses_old" -> CallsOn(m, "BOSSES", "")
    [] s = "generate_enemies" -> CallsOn(m, "ENEMIES", "")
    [] s = "generate_missing_undertale_enemies" -> CallsOn(m, "ENEMIES", "")
    [] s = "generate_deltarune_enemies" ->
         CallsOn(m, "ch2_enemies", "ch2") \o CallsOn(m, "ch1_enemies", "ch1")
    [] s = "generate_deltarune_bosses" -> CallsOn(m, "bosses", "")

Calls(s, m) ==
  CASE s = "generate_bosses_old" -> CallsOn(m, "BOSSES", "")
    [] s = "generate_enemies" -> CallsOn(m, "ENEMIES", "")
    [] s = "generate_missing_undertale_enemies" -> CallsOn(m, "ENEMIES", "")
    [] s = "generate_deltarune_enemies" ->
         CallsOn(m, "ch1_enemies", "ch1") \o CallsOn(m, "ch2_enemies", "ch2")
    [] s = "generate_deltarune_bosses" -> CallsOn(m, "bosses", "")

Entry(m, c) == m[c.tbl][c.idx]

\* the path the call gives to open()
Filename(s, c, m) ==
  CASE s = "generate_bosses_old" -> create_boss_json_filename(Entry(m, c).id)
    [] s = "generate_enemies" -> create_enemy_json_filename(Entry(m, c).id)
    [] s = "generate_missing_undertale_enemies" -> create_enemy_json_missing_filename(Entry(m, c).id)
    [] s = "generate_deltarune_enemies" -> generate_enemy_json_filepath(Entry(m, c), output_dir_enemies)
    [] s = "generate_deltarune_bosses" -> generate_boss_json_filepath(Entry(m, c), output_dir_bosses)

\* the value the call gives to json.dump
Payload(s, c, m) ==
  CASE s = "generate_bosses_old" -> create_boss_json_data(Entry(m, c).data)
    [] s = "generate_enemies" -> create_enemy_json_data(Entry(m, c).data)
    [] s = "generate_missing_undertale_enemies" -> create_enemy_json_missing_data(Entry(m, c).data)
    [] s = "generate_deltarune_enemies" -> generate_enemy_json_data(Entry(m, c), c.chapter)
    [] s = "generate_deltarune_bosses" -> generate_boss_json_data(Entry(m, c))

\* a variant of MemAfterCall in which the call fills in a copy of the record
MemAfterCall_copy(s, c, m) == m

\* the tables once the call has run its statements before open():
\* generate_enemies.py's create_enemy_json assigns into the table's own dict
MemAfterCall(s, c, m) ==
  IF s = "generate_enemies"
    THEN [m EXCEPT ![c.tbl][c.idx].data = create_enemy_json_data(@)]
    ELSE m

\* the directory a script writes into, as the script names it
OutputDir(s) ==
  CASE s = "generate_bosses_old" -> OUTPUT_DIR_bosses
    [] s = "generate_enemies" -> OUTPUT_DIR_enemies
    [] s = "generate_missing_undertale_enemies" -> dirname(create_enemy_json_missing_filename("x"))
    [] s = "generate_deltarune_enemies" -> output_dir_enemies
    [] s = "generate_deltarune_bosses" -> output_dir_bosses

\* where each script calls os.makedirs
MakesDirsAtImport(s) == s = "generate_bosses_old"
MakesDirsInMain(s) == s \in {"generate_deltarune_enemies", "generate_deltarune_bosses"}
MakesDirsInCall(s) == s = "generate_missing_undertale_enemies"

\* the line a call prints after its file is closed
CallLine(s, path) ==
  IF s \in {"generate_deltarune_enemies", "generate_deltarune_bosses"}
    THEN "Generated: " \o path
    ELSE "Created " \o path

\* the lines main() prints before its loop
HeaderLines(s, m) ==
  CASE s = "generate_bosses_old" -> <<"Generating " \o IntToStr(Len(m.BOSSES)) \o " boss files...">>
    [] s = "generate_enemies" -> <<"Generating " \o IntToStr(Len(m.ENEMIES)) \o " enemy files...">>
    [] s = "generate_missing_undertale_enemies" ->
         <<"Generating missing Undertale enemy files...",
           "Total enemies to create: " \o IntToStr(Len(m.ENEMIES))>>
    [] s = "generate_deltarune_enemies" -> <<"Generating Deltarune enemies...">>
    [] s = "generate_deltarune_bosses" -> <<"Generating Deltarune bosses...">>

\* a variant of SummaryLine that counts only the first table of
\* generate_deltarune_enemies.py
SummaryLine_ch1Only(s, m) ==
  CASE s = "generate_bosses_old" ->
         "\nComplete! Generated " \o IntToStr(Len(m.BOSSES)) \o " boss files in " \o OUTPUT_DIR_bosses
    [] s = "generate_enemies" ->
         "\nComplete! Generated " \o IntToStr(Len(m.ENEMIES)) \o " enemy files in " \o OUTPUT_DIR_enemies
    [] s = "generate_missing_undertale_enemies" ->
         "\nSuccessfully created " \o IntToStr(Len(m.ENEMIES)) \o " enemy files!"
    [] s = "generate_deltarune_enemies" ->
         "\nGenerated " \o IntToStr(Len(m.ch1_enemies)) \o " Deltarune enemies!"
    [] s = "generate_deltarune_bosses" ->
         "\nGenerated " \o IntToStr(Len(m.bosses)) \o " Deltarune bosses!"

\* the line main() prints after its loop
SummaryLine(s, m) ==
  CASE s = "generate_bosses_old" ->
         "\nComplete! Generated " \o IntToStr(Len(m.BOSSES)) \o " boss files in " \o OUTPUT_DIR_bosses
    [] s = "generate_enemies" ->
         "\nComplete! Generated " \o IntToStr(Len(m.ENEMIES)) \o " enemy files in " \o OUTPUT_DIR_enemies
    [] s = "generate_missing_undertale_enemies" ->
         "\nSuccessfully created " \o IntToStr(Len(m.ENEMIES)) \o " enemy files!"
    [] s = "generate_deltarune_enemies" ->
         "\nGenerated " \o IntToStr(Len(m.ch1_enemies) + Len(m.ch2_enemies)) \o " Deltarune enemies!"
    [] s = "generate_deltarune_bosses" ->
         "\nGenerated " \o IntToStr(Len(m.bosses)) \o " Deltarune bosses!"

----------------------------------------------------------------------------
(* The environment a process starts in *)

\* the directory OUTPUT_DIR is written under, and a directory outside it
REPO_ROOT == "/workspaces/Under-Delta-Tale-Rune-Fight-Sim"
WorkDirs == {REPO_ROOT, "/home/player/fight-sim"}

\* what a process can be started with besides its working directory; no script
\* imports sys or reads os.environ or standard input, so no step below reads it
Environments ==
  {[argv |-> <<>>, env |-> "", stdin |-> ""],
   [argv |-> <<"--output-dir", "/tmp/out">>, env |-> "OUTPUT_DIR=/tmp/out", stdin |-> "/tmp/out\n"]}

\* how many times main() returns in one behaviour
MaxRuns == 2

NoData == [t |-> "none"]

\* the paths a script's run writes, resolved from the directory dir
OutputPaths(s, dir) == {abspath(dir, Filename(s, Calls(s, Tables(s))[k], Tables(s))) : k \in 1..Len(Calls(s, Tables(s)))}

\* a file in the output directory that belongs to no record
Bystander(s, dir) == join(abspath(dir, OutputDir(s)), "README.json")

\* bare: only the working directory exists; empty: the output directory exists and is empty;
\* stale: every output path and one more file of the directory already hold older content
Layouts == {"bare", "empty", "stale"}

InitDirs(s, dir, layout) ==
  Ancestors(dir) \cup (IF layout = "bare" THEN {} ELSE Ancestors(abspath(dir, OutputDir(s))))

InitFiles(s, dir, layout) ==
  IF layout = "stale"
    THEN [p \in OutputPaths(s, dir) \cup {Bystander(s, dir)} |-> StaleFile]
    ELSE [p \in {} |-> StaleFile]

Init ==
  /\ script \in Scripts
  /\ cwd \in WorkDirs
  /\ environ \in Environments
  /\ \E layout \in Layouts :
       /\ dirs = InitDirs(script, cwd, layout)
       /\ files = InitFiles(script, cwd, layout)
  /\ files0 = files
  /\ mem = Tables(script)
  /\ pc = "import"
  /\ i = 0
  /\ runs = 0
  /\ fh = NoFile
  /\ data = NoData
  /\ out = <<>>
  /\ written = <<>>
  /\ snapshot = [p \in {} |-> StaleFile]
  /\ err = NoError

----------------------------------------------------------------------------
(* The steps of a process *)

\* the module's top-level statements: generate_bosses_old.py creates OUTPUT_DIR here
Import ==
  /\ pc = "import"
  /\ dirs' = IF MakesDirsAtImport(script) THEN makedirs(dirs, cwd, OutputDir(script)) ELSE dirs
  /\ pc' = "main"
  /\ UNCHANGED <<script, cwd, environ, files, mem, i, runs, fh, data, out, written, files0, snapshot, err>>

\* os.makedirs raises OSError at import: the process ends with a traceback
ImportFails ==
  /\ pc = "import"
  /\ MakesDirsAtImport(script)
  /\ pc' = "aborted"
  /\ err' = "OSError"
  /\ UNCHANGED <<script, cwd, environ, dirs, files, mem, i, runs, fh, data, out, written, files0, snapshot>>

\* main() up to its loop: the Deltarune scripts create output_dir, then the header is printed
MainBegin ==
  /\ pc = "main"
  /\ dirs' = IF MakesDirsInMain(script) THEN makedirs(dirs, cwd, OutputDir(script)) ELSE dirs
  /\ out' = out \o HeaderLines(script, mem)
  /\ i' = 0
  /\ written' = <<>>
  /\ pc' = "loop"
  /\ UNCHANGED <<script, cwd, environ, files, mem, runs, fh, data, files0, snapshot, err>>

\* os.makedirs raises OSError in main(): nothing has been printed or written
MainBeginFails ==
  /\ pc = "main"
  /\ MakesDirsInMain(script)
  /\ pc' = "aborted"
  /\ err' = "OSError"
  /\ UNCHANGED <<script, cwd, environ, dirs, files, mem, i, runs, fh, data, out, written, files0, snapshot>>

\* the next call of the loop, up to and including open(filename, 'w');
\* c, m2, path and ds are the call's locals, each bound to its value
Call ==
  /\ pc = "loop"
  /\ i < Len(Calls(script, mem))
  /\ \E c \in {Calls(script, mem)[i + 1]} :
     \E m2 \in {MemAfterCall(script, c, mem)} :
     \E path \in {Filename(script, c, m2)} :
     \E ds \in {IF MakesDirsInCall(script) THEN makedirs(dirs, cwd, dirname(path)) ELSE dirs} :
        /\ CanOpen(ds, cwd, path)
        /\ mem' = m2
        /\ dirs' = ds
        /\ files' = Truncate(files, abspath(cwd, path))
        /\ fh' = abspath(cwd, path)
        /\ data' = Payload(script, c, m2)
  /\ pc' = "dump"
  /\ UNCHANGED <<script, cwd, environ, i, runs, out, written, files0, snapshot, err>>

\* the call raises before the file is open: os.makedirs raises OSError, or open()
\* raises (FileNotFoundError when the file's directory does not exist, and then always)
CallFails ==
  /\ pc = "loop"
  /\ i < Len(Calls(script, mem))
  /\ \E c \in {Calls(script, mem)[i + 1]} :
     \E m2 \in {MemAfterCall(script, c, mem)} :
     \E path \in {Filename(script, c, m2)} :
     \E ds \in {IF MakesDirsInCall(script) THEN makedirs(dirs, cwd, dirname(path)) ELSE dirs} :
        /\ mem' = m2
        /\ \/ /\ MakesDirsInCall(script)
              /\ dirs' = dirs
              /\ err' = "OSError"
           \/ /\ dirs' = ds
              /\ err' = IF dirname(abspath(cwd, path)) \in ds THEN "OSError" ELSE "FileNotFoundError"
  /\ pc' = "aborted"
  /\ UNCHANGED <<script, cwd, environ, files, i, runs, fh, data, out, written, files0, snapshot>>

\* json.dump(data, f, indent=4) and the end of the with block
Dump ==
  /\ pc = "dump"
  /\ files' = WriteFile(files, fh, JsonDump(data))
  /\ written' = Append(written, fh)
  /\ fh' = NoFile
  /\ pc' = "print"
  /\ UNCHANGED <<script, cwd, environ, dirs, mem, i, runs, data, out, files0, snapshot, err>>

\* a variant of DumpFails that puts back what the path held before the process
\* started (as a write to a temporary file followed by a rename would leave it)
DumpFails_rollback ==
  /\ pc = "dump"
  /\ files' = IF fh \in DOMAIN files0
                THEN [files EXCEPT ![fh] = files0[fh]]
                ELSE [p \in (DOMAIN files) \ {fh} |-> files[p]]
  /\ fh' = NoFile
  /\ pc' = "aborted"
  /\ err' = "OSError"
  /\ UNCHANGED <<script, cwd, environ, dirs, mem, i, runs, data, out, written, files0, snapshot>>

\* a variant of DumpFails in which the call catches the error and the loop goes on
DumpFails_continue ==
  /\ pc = "dump"
  /\ \E left \in {EmptyFile, PartialFile} : files' = [files EXCEPT ![fh] = left]
  /\ fh' = NoFile
  /\ pc' = "print"
  /\ err' = "OSError"
  /\ UNCHANGED <<script, cwd, environ, dirs, mem, i, runs, data, out, written, files0, snapshot>>

\* the write raises OSError part way: the with block closes the file as it is
DumpFails ==
  /\ pc = "dump"
  /\ \E left \in {EmptyFile, PartialFile} : files' = [files EXCEPT ![fh] = left]
  /\ fh' = NoFile
  /\ pc' = "aborted"
  /\ err' = "OSError"
  /\ UNCHANGED <<script, cwd, environ, dirs, mem, i, runs, data, out, written, files0, snapshot>>

\* a variant of PrintLine after which the loop takes the same record again
PrintLine_sameRecord ==
  /\ pc = "print"
  /\ out' = Append(out, CallLine(script, Filename(script, Calls(script, mem)[i + 1], mem)))
  /\ i' = i
  /\ data' = NoData
  /\ pc' = "loop"
  /\ UNCHANGED <<script, cwd, environ, dirs, files, mem, runs, fh, written, files0, snapshot, err>>

\* the call's print, and the loop moves on
PrintLine ==
  /\ pc = "print"
  /\ out' = Append(out, CallLine(script, Filename(script, Calls(script, mem)[i + 1], mem)))
  /\ i' = i + 1
  /\ data' = NoData
  /\ pc' = "loop"
  /\ UNCHANGED <<script, cwd, environ, dirs, files, mem, runs, fh, written, files0, snapshot, err>>

\* the loop is over: main() prints its summary and returns
MainEnd ==
  /\ pc = "loop"
  /\ i = Len(Calls(script, mem))
  /\ out' = Append(out, SummaryLine(script, mem))
  /\ runs' = runs + 1
  /\ snapshot' = IF runs = 0 THEN files ELSE snapshot
  /\ pc' = "done"
  /\ UNCHANGED <<script, cwd, environ, dirs, files, mem, i, fh, data, written, files0, err>>

\* main() is called once more in the same process, on the same tables
MainAgain ==
  /\ pc = "done"
  /\ runs < MaxRuns
  /\ pc' = "main"
  /\ UNCHANGED <<script, cwd, environ, dirs, files, mem, i, runs, fh, data, out, written, files0, snapshot, err>>

\* the script is started once more as a new process in the same directory
Restart ==
  /\ pc = "done"
  /\ runs < MaxRuns
  /\ environ' \in Environments
  /\ mem' = Tables(script)
  /\ out' = <<>>
  /\ pc' = "import"
  /\ UNCHANGED <<script, cwd, dirs, files, i, runs, fh, data, written, files0, snapshot, err>>

Next ==
  \/ Import
  \/ ImportFails
  \/ MainBegin
  \/ MainBeginFails
  \/ Call
  \/ CallFails
  \/ Dump
  \/ DumpFails
  \/ PrintLine
  \/ MainEnd
  \/ MainAgain
  \/ Restart

Spec == Init /\ [][Next]_vars

\* the interpreter runs a statement whenever there is a next one: a process
\* that has reached a statement executes it, and the statement returns or
\* raises.  Nothing obliges anyone to call main() again or to start the
\* script again.
FairSpec ==
  /\ Spec
  /\ WF_vars(ImportFails \/ Import)
  /\ WF_vars(MainBeginFails \/ MainBegin)
  /\ WF_vars(CallFails \/ Call)
  /\ WF_vars(DumpFails \/ Dump)
  /\ WF_vars(PrintLine)
  /\ WF_vars(MainEnd)


----------------------------------------------------------------------------
(* What the claims speak of *)

UndertaleScripts == {"generate_bosses_old", "generate_enemies", "generate_missing_undertale_enemies"}
DeltaruneScripts == {"generate_deltarune_enemies", "generate_deltarune_bosses"}

\* main() has returned
RunComplete == pc = "done"

\* the k-th call of main() on the tables as they stand, its record and its file
CallAt(k) == Calls(script, mem)[k]
RecordAt(k) == IF script \in UndertaleScripts THEN Entry(mem, CallAt(k)).data ELSE Entry(mem, CallAt(k))
PathAt(k) == abspath(cwd, Filename(script, CallAt(k), mem))
NumCalls == Len(Calls(script, mem))

\* the record as the source literal writes it
LiteralAt(k) ==
  IF script \in UndertaleScripts
    THEN Entry(Tables(script), CallAt(k)).data
    ELSE Entry(Tables(script), CallAt(k))

\* a file of the run decoded with json.load
Decoded(p) == JsonLoad(files[p])

\* a call's file has just been written and closed
JustWritten == pc = "print"
LastPath == written[Len(written)]
LastDecoded == Decoded(LastPath)

\* the base name of a path without its ".json"
Stem(p) == SubSeq(basename(p), 1, Len(basename(p)) - 5)

NoFilesAtStart == DOMAIN files0 = {}

----------------------------------------------------------------------------
\* C1 (as stated): after main() completes, every record's output file decodes
\* to a value equal to the record as it stands in the script's table, with
\* the same keys and the same values.
C1_RoundTripToTable ==
  RunComplete =>
    \A k \in 1..NumCalls :
      /\ PathAt(k) \in DOMAIN files
      /\ IsJson(files[PathAt(k)])
      /\ Decoded(PathAt(k)) = RecordAt(k)

DerivedKeys(s) ==
  IF s = "generate_deltarune_enemies"
    THEN {"gold", "exp", "spareThreshold", "sprites", "checkText", "attackPatterns"}
    ELSE {"gold", "exp", "spareThreshold", "sprites"}

\* C1 (amended): after main() completes, every record's output file decodes
\* to the value the call handed to json.dump.  In the three Undertale scripts
\* that value is the table record as it then stands (in generate_enemies.py
\* with the default attackPatterns the call has added to it).  In the two
\* Deltarune scripts it is the derived dictionary, which differs from the
\* table record: "folder" and "chapter" are dropped and the derived keys added.
C1_RoundTrip ==
  RunComplete =>
    \A k \in 1..NumCalls :
      /\ PathAt(k) \in DOMAIN files
      /\ IsJson(files[PathAt(k)])
      /\ LET decoded == Decoded(PathAt(k))
         IN /\ decoded = Payload(script, CallAt(k), mem)
            /\ script \in UndertaleScripts => decoded = RecordAt(k)
            /\ script \in DeltaruneScripts =>
                 /\ decoded # RecordAt(k)
                 /\ Keys(decoded) =
                      (Keys(RecordAt(k)) \ {"folder", "chapter"}) \cup DerivedKeys(script)

\* a Deltarune run and a generate_enemies.py run have completed
C1_Witness ==
  /\ RunComplete
  /\ script = "generate_deltarune_enemies"
  /\ Len(written) = NumCalls
  /\ Has(RecordAt(1), "folder")
  /\ ~Has(Decoded(PathAt(1)), "folder")

----------------------------------------------------------------------------
RecordCount(s) ==
  CASE s = "generate_bosses_old" -> 8
    [] s = "generate_enemies" -> 25
    [] s = "generate_missing_undertale_enemies" -> 13
    [] s = "generate_deltarune_enemies" -> 12
    [] s = "generate_deltarune_bosses" -> 6

FilesIn(dir) == {p \in DOMAIN files : dirname(p) = dir}

\* C2: within a script no two records share an output path; after a run that
\* started with no files and completed, the output directory holds as many
\* files as the table has records (8, 25, 13, 12, 6), each written once.
C2_OneFilePerRecord ==
  (RunComplete /\ NoFilesAtStart) =>
       /\ Cardinality({PathAt(k) : k \in 1..NumCalls}) = NumCalls
       /\ NumCalls = RecordCount(script)
       /\ Cardinality(FilesIn(abspath(cwd, OutputDir(script)))) = RecordCount(script)
       /\ Len(written) = RecordCount(script)
       /\ \A k, l \in 1..Len(written) : k # l => written[k] # written[l]
       /\ \A k \in 1..NumCalls : files[PathAt(k)] = JsonDump(Payload(script, CallAt(k), mem))

C2_Witness ==
  /\ RunComplete
  /\ NoFilesAtStart
  /\ script = "generate_deltarune_enemies"
  /\ Cardinality(DOMAIN files) = 12

----------------------------------------------------------------------------
\* C3: a second call of main(), in the same process or in a new one, leaves
\* every file with the content the first call left.
C3_Idempotent == (RunComplete /\ runs >= 2) => files = snapshot

\* generate_enemies.py has run twice in one process: its records already had
\* the default attackPatterns when the second run wrote them
C3_Witness ==
  /\ RunComplete
  /\ runs = 2
  /\ script = "generate_enemies"
  /\ out # <<>>
  /\ Len(out) > NumCalls + 2
  /\ DOMAIN snapshot # {}


----------------------------------------------------------------------------
\* C4: every script creates its output directory (and missing parents) before
\* its first open(), so no run ends with a missing-directory error.
C4_DirectoryCreated == err # "FileNotFoundError"

\* the missing-directory error ends only runs of generate_enemies.py, at its
\* first open(), and only where OUTPUT_DIR did not exist
C4_OnlyGenerateEnemies ==
  err = "FileNotFoundError" =>
    /\ script = "generate_enemies"
    /\ i = 0
    /\ OUTPUT_DIR_enemies \notin dirs
    /\ files = files0

----------------------------------------------------------------------------
IsCleanChar(c) == ~IsUpper(c) /\ c \notin {" ", "'", "-"}
IsCleanName(s) == \A k \in 1..Len(s) : IsCleanChar(CharAt(s, k))

\* C5: the base name (before ".json") of every file a script writes has no
\* uppercase letter, no space, no apostrophe and no hyphen, whether it is
\* computed from the display name or is a dictionary key.
C5_FileNameAlphabet ==
  JustWritten =>
    /\ basename(LastPath) = Stem(LastPath) \o ".json"
    /\ IsCleanName(Stem(LastPath))

\* the file of "Ambyu-Lance" (space-free, hyphenated) and of a dictionary key
C5_Witness ==
  /\ JustWritten
  /\ script = "generate_deltarune_enemies"
  /\ Get(RecordAt(i + 1), "name").v = "Ambyu-Lance"
  /\ Stem(LastPath) = "ambyu_lance"

----------------------------------------------------------------------------
\* whether f is the display name lowercased with each space, apostrophe and
\* hyphen either removed or replaced by "_"
RECURSIVE IsNormalizationOf(_, _)
IsNormalizationOf(f, name) ==
  IF name = "" THEN f = ""
  ELSE LET c == LowerChar(CharAt(name, 1))
           rest == SubSeq(name, 2, Len(name))
       IN IF c \in {" ", "'", "-"}
            THEN \/ IsNormalizationOf(f, rest)
                 \/ (StartsWith(f, "_") /\ IsNormalizationOf(SubSeq(f, 2, Len(f)), rest))
            ELSE StartsWith(f, c) /\ IsNormalizationOf(SubSeq(f, 2, Len(f)), rest)

\* C6 (as stated): in every script the file name of every record is the
\* normalization of the record's "name" followed by ".json".
C6_NameFromDisplayName ==
  JustWritten =>
    /\ basename(LastPath) = Stem(LastPath) \o ".json"
    /\ IsNormalizationOf(Stem(LastPath), Get(RecordAt(i + 1), "name").v)

KeysNotFromName == {"mettaton", "asriel", "dogamy_dogaressa"}

\* C6 (amended): in the two Deltarune scripts the file name is the
\* normalization of the display name followed by ".json".  In the three
\* Undertale scripts it is the record's dictionary key followed by ".json";
\* the key is a normalization of the display name for every record except
\* "mettaton" (Mettaton EX), "asriel" (Asriel Dreemurr) and
\* "dogamy_dogaressa" (Dogamy & Dogaressa).
C6_FileNameRule ==
  JustWritten =>
    /\ basename(LastPath) = Stem(LastPath) \o ".json"
    /\ script \in DeltaruneScripts =>
         IsNormalizationOf(Stem(LastPath), Get(RecordAt(i + 1), "name").v)
    /\ script \in UndertaleScripts =>
         /\ Stem(LastPath) = Entry(mem, CallAt(i + 1)).id
         /\ IsNormalizationOf(Stem(LastPath), Get(RecordAt(i + 1), "name").v)
              <=> Stem(LastPath) \notin KeysNotFromName

\* "Mettaton EX" has been written to mettaton.json, and "Sweet Cap'n Cakes"
\* to a file named from its display name
C6_Witness ==
  /\ JustWritten
  /\ \/ /\ script = "generate_bosses_old"
        /\ Get(RecordAt(i + 1), "name").v = "Mettaton EX"
        /\ Stem(LastPath) = "mettaton"
     \/ /\ script = "generate_deltarune_bosses"
        /\ Get(RecordAt(i + 1), "name").v = "Sweet Cap'n Cakes"
        /\ Stem(LastPath) = "sweet_capn_cakes"

----------------------------------------------------------------------------
\* C7: a file that existed at a record's output path before the run holds,
\* after a run that completed, exactly the serialization of that record:
\* nothing of the previous content is left.
C7_Overwrite ==
  RunComplete =>
    \A k \in 1..NumCalls :
      PathAt(k) \in DOMAIN files0 =>
        files[PathAt(k)] = JsonDump(Payload(script, CallAt(k), mem))

\* a run over older files has completed and replaced them
C7_Witness ==
  /\ RunComplete
  /\ runs = 1
  /\ \A k \in 1..NumCalls :
       /\ PathAt(k) \in DOMAIN files0
       /\ files0[PathAt(k)] = StaleFile
       /\ files[PathAt(k)] # StaleFile

----------------------------------------------------------------------------
DocumentedKeys ==
  {"name", "hp", "attack", "defense", "gold", "exp", "spareThreshold",
   "dialogue", "checkText", "sprites", "acts", "attackPatterns"}

\* C8: every file a script writes is a JSON object with all the documented
\* keys, also for the records whose literals lack some of them.
C8_DocumentedKeys ==
  JustWritten =>
    /\ files[LastPath].j = "object"
    /\ DocumentedKeys \subseteq Keys(LastDecoded)

\* a generate_enemies.py record whose literal has no attackPatterns, and a
\* Deltarune record whose literal has no gold, have been written
C8_Witness ==
  /\ JustWritten
  /\ \/ script = "generate_enemies" /\ ~Has(LiteralAt(i + 1), "attackPatterns")
     \/ script \in DeltaruneScripts /\ ~Has(LiteralAt(i + 1), "gold")
  /\ DocumentedKeys \subseteq Keys(LastDecoded)

----------------------------------------------------------------------------
ActName(a) == Get(a, "name").v

\* C9: in every file written, acts is non-empty, its first element is the
\* act named "Check" with effect "check", and no later element is named "Check".
C9_CheckFirst ==
  JustWritten =>
    LET acts == Get(LastDecoded, "acts").v
    IN /\ Len(acts) >= 1
       /\ ActName(acts[1]) = "Check"
       /\ Get(acts[1], "effect").v = "check"
       /\ \A k \in 2..Len(acts) : ActName(acts[k]) # "Check"

\* a file with several acts has been written
C9_Witness ==
  /\ JustWritten
  /\ Len(Get(LastDecoded, "acts").v) >= 3
  /\ ActName(Get(LastDecoded, "acts").v[1]) = "Check"

----------------------------------------------------------------------------
\* C10: in every file written, every wave of every attack pattern has
\* 0 <= time <= the pattern's duration.
C10_WaveTimes ==
  JustWritten =>
    LET patterns == Get(LastDecoded, "attackPatterns").v
    IN \A n \in 1..Len(patterns) :
         \A w \in 1..Len(Get(patterns[n], "waves").v) :
           LET wave == Get(patterns[n], "waves").v[w]
           IN /\ Get(wave, "time").t = "int"
              /\ Get(patterns[n], "duration").t = "int"
              /\ 0 <= Get(wave, "time").v
              /\ Get(wave, "time").v <= Get(patterns[n], "duration").v

\* a file with an injected default pattern, and Flowey's file whose waves
\* carry their own "duration", have been written
C10_Witness ==
  /\ JustWritten
  /\ \/ /\ script = "generate_enemies"
        /\ Get(LastDecoded, "attackPatterns") = DefaultAttackPatterns
     \/ /\ script = "generate_bosses_old"
        /\ Has(Get(Get(LastDecoded, "attackPatterns").v[1], "waves").v[1], "duration")


----------------------------------------------------------------------------
TorielPath == create_boss_json_filename("toriel")

\* the "time" of every wave of a pattern, in order
WaveTimes(pattern) ==
  [w \in 1..Len(Get(pattern, "waves").v) |-> Get(Get(pattern, "waves").v[w], "time")]

\* C11: after generate_bosses_old.py has run, toriel.json in OUTPUT_DIR decodes
\* to a record with hp 440, attack 6, defense 1 and exactly one attack pattern,
\* named "Fire Magic", with exactly four waves at times 0, 1000, 2000, 3000.
C11_Toriel ==
  (RunComplete /\ script = "generate_bosses_old") =>
    /\ TorielPath \in DOMAIN files
    /\ IsJson(files[TorielPath])
    /\ LET toriel == Decoded(TorielPath)
           patterns == Get(toriel, "attackPatterns")
       IN /\ Get(toriel, "hp") = PyInt(440)
          /\ Get(toriel, "attack") = PyInt(6)
          /\ Get(toriel, "defense") = PyInt(1)
          /\ patterns.t = "list"
          /\ Len(patterns.v) = 1
          /\ Get(patterns.v[1], "name") = PyStr("Fire Magic")
          /\ Get(patterns.v[1], "waves").t = "list"
          /\ WaveTimes(patterns.v[1]) = <<PyInt(0), PyInt(1000), PyInt(2000), PyInt(3000)>>

\* generate_bosses_old.py has completed and toriel.json holds Toriel's record
C11_Witness ==
  /\ RunComplete
  /\ script = "generate_bosses_old"
  /\ \E k \in 1..Len(written) : written[k] = TorielPath
  /\ IsJson(files[TorielPath])
  /\ Get(Decoded(TorielPath), "name") = PyStr("Toriel")

----------------------------------------------------------------------------
\* a "sprites" value whose every animation state maps to a list of strings
IsSpriteLists(sprites) ==
  /\ sprites.t = "dict"
  /\ \A state \in Keys(sprites) :
       /\ Get(sprites, state).t = "list"
       /\ \A n \in 1..Len(Get(sprites, state).v) : Get(sprites, state).v[n].t = "str"

\* C12 (as stated): in every file of every script, "sprites" maps every
\* animation state to a list of image-path strings, never to a bare string.
C12_SpritesAreLists == JustWritten => IsSpriteLists(Get(LastDecoded, "sprites"))

\* the three Undertale scripts write lists; the two Deltarune scripts write
\* "idle" as one bare string in every file
C12_BareStringInDeltarune ==
  JustWritten =>
    /\ script \in UndertaleScripts => IsSpriteLists(Get(LastDecoded, "sprites"))
    /\ script \in DeltaruneScripts =>
         /\ Keys(Get(LastDecoded, "sprites")) = {"idle"}
         /\ Get(Get(LastDecoded, "sprites"), "idle").t = "str"

----------------------------------------------------------------------------
StatKeys == {"hp", "attack", "defense", "gold", "exp", "spareThreshold"}

\* C13: in every file written, hp, attack, defense, gold, exp and
\* spareThreshold are integers, hp >= 1, attack, gold and exp >= 0 and
\* spareThreshold is 0 or 100; of the six only defense is ever negative.
C13_Stats ==
  JustWritten =>
    LET rec == LastDecoded
    IN /\ \A s \in StatKeys : Has(rec, s) /\ Get(rec, s).t = "int"
       /\ Get(rec, "hp").v >= 1
       /\ Get(rec, "attack").v >= 0
       /\ Get(rec, "gold").v >= 0
       /\ Get(rec, "exp").v >= 0
       /\ Get(rec, "spareThreshold").v \in {0, 100}
       /\ \A s \in StatKeys \ {"defense"} : Get(rec, s).v >= 0

\* Temmie's file, with defense -20, has been written
C13_Witness ==
  /\ JustWritten
  /\ script = "generate_missing_undertale_enemies"
  /\ Get(LastDecoded, "defense").t = "int"
  /\ Get(LastDecoded, "defense").v < 0

----------------------------------------------------------------------------
\* an exception has ended the process
Failed == err # NoError

\* the files as they were when the current call of main() began
RunStartFiles == IF runs = 0 THEN files0 ELSE snapshot

\* the file of the k-th record is as it was when the run began
Untouched(k) ==
  IF PathAt(k) \in DOMAIN RunStartFiles
    THEN PathAt(k) \in DOMAIN files /\ files[PathAt(k)] = RunStartFiles[PathAt(k)]
    ELSE PathAt(k) \notin DOMAIN files

\* C14: once creating a directory or writing the file of record i+1 has
\* failed, the process has stopped for good: the step that fails prints
\* nothing, no step follows it (no retry, no further file, no summary line),
\* the files of the records before it hold their new content (each held its
\* record's serialization when it was closed, and no step of the run, the
\* failing one included, changes a file the run has written) and the files
\* of the records after it are as they were when the run began.
C14_AbortsAtOnce ==
  /\ [](Failed =>
          /\ pc = "aborted"
          /\ fh = NoFile
          /\ Len(written) = i
          /\ \A k \in 1..i : written[k] = PathAt(k) /\ IsJson(files[PathAt(k)])
          /\ \A k \in (i + 2)..NumCalls : Untouched(k))
  /\ [](JustWritten => files[LastPath] = JsonDump(Payload(script, CallAt(i + 1), mem)))
  /\ [][\A k \in 1..Len(written) : files'[written[k]] = files[written[k]]]_vars
  /\ [][(err' # NoError) => (out' = out /\ runs' = runs)]_vars
  /\ [][Failed => UNCHANGED vars]_vars

\* a write has failed at a record that is neither the first nor the last
C14_Witness ==
  /\ Failed
  /\ pc = "aborted"
  /\ i >= 1
  /\ i + 2 <= NumCalls
  /\ PathAt(i + 1) \in DOMAIN files
  /\ files[PathAt(i + 1)] = PartialFile
  /\ files[PathAt(i)] = JsonDump(Payload(script, CallAt(i), mem))

----------------------------------------------------------------------------
\* the scripts whose output directory is an absolute path, and the others
AbsoluteScripts == {"generate_bosses_old", "generate_enemies"}
RelativeScripts == Scripts \ AbsoluteScripts

WrittenSet == {written[k] : k \in 1..Len(written)}

\* what the k-th call of a script writes, computed from the source tables alone
ReferenceContent(s, k) == JsonDump(Payload(s, Calls(s, Tables(s))[k], Tables(s)))

\* C15 (as stated): whatever the arguments, environment variables, standard
\* input and working directory of a run, it writes the same absolute paths
\* (those a run started in the repository root writes) with the same contents.
C15_SameAbsolutePaths ==
  RunComplete =>
    /\ WrittenSet = OutputPaths(script, REPO_ROOT)
    /\ \A k \in 1..NumCalls : files[written[k]] = ReferenceContent(script, k)

\* C15 (amended): the contents a run writes, and the paths as the script
\* names them, depend on nothing the run is started with.  The absolute paths
\* are the same from every working directory for generate_bosses_old.py and
\* generate_enemies.py, whose OUTPUT_DIR is absolute; the other three scripts
\* name a relative directory, so their absolute paths are the working
\* directory joined with a fixed relative path and differ between working
\* directories.
C15_EnvironmentIndependence ==
  RunComplete =>
    /\ Len(written) = NumCalls
    /\ \A k \in 1..NumCalls :
         /\ files[written[k]] = ReferenceContent(script, k)
         /\ written[k] = abspath(cwd, Filename(script, Calls(script, Tables(script))[k], Tables(script)))
    /\ script \in AbsoluteScripts =>
         \A d \in WorkDirs : WrittenSet = OutputPaths(script, d)
    /\ script \in RelativeScripts =>
         /\ \A k \in 1..NumCalls :
              written[k] = join(cwd, Filename(script, Calls(script, Tables(script))[k], Tables(script)))
         /\ \A d \in WorkDirs \ {cwd} : WrittenSet \cap OutputPaths(script, d) = {}

\* a script with a relative output directory has completed outside the
\* repository root, started with arguments, and one with an absolute one too
C15_Witness ==
  /\ RunComplete
  /\ cwd # REPO_ROOT
  /\ environ.argv # <<>>
  /\ Len(written) = NumCalls
  /\ script = "generate_missing_undertale_enemies"
  /\ StartsWith(written[1], cwd)

----------------------------------------------------------------------------
\* the records of a script in table order: dictionary insertion order, or
\* list order with all of ch1_enemies before all of ch2_enemies
TableOrder(s) ==
  CASE s = "generate_bosses_old" -> mem.BOSSES
    [] s = "generate_enemies" -> mem.ENEMIES
    [] s = "generate_missing_undertale_enemies" -> mem.ENEMIES
    [] s = "generate_deltarune_enemies" -> mem.ch1_enemies \o mem.ch2_enemies
    [] s = "generate_deltarune_bosses" -> mem.bosses

\* the path a script gives to open() for an entry of its table
RecordPath(s, e) ==
  CASE s = "generate_bosses_old" -> create_boss_json_filename(e.id)
    [] s = "generate_enemies" -> create_enemy_json_filename(e.id)
    [] s = "generate_missing_undertale_enemies" -> create_enemy_json_missing_filename(e.id)
    [] s = "generate_deltarune_enemies" -> generate_enemy_json_filepath(e, output_dir_enemies)
    [] s = "generate_deltarune_bosses" -> generate_boss_json_filepath(e, output_dir_bosses)

OrderPath(k) == RecordPath(script, TableOrder(script)[k])

\* the progress lines of the first n records, in table order
ProgressLines(n) == [k \in 1..n |-> CallLine(script, OrderPath(k))]

\* the last n lines printed
LastLines(n) == SubSeq(out, Len(out) - n + 1, Len(out))

InLoop == pc \in {"loop", "dump", "print"}

\* C16: files are written one after another in table order: while the loop
\* runs, the files closed so far are those of the first records in table
\* order; a file is open only between its open() and the end of its
\* json.dump, it is then the file of the next record in table order, all
\* files before it are closed and complete and their progress lines printed,
\* and no other file is empty or partly written.
C16_SequentialOrder ==
  /\ InLoop =>
       /\ i <= Len(TableOrder(script))
       /\ Len(written) = (IF pc = "print" THEN i + 1 ELSE i)
       /\ \A k \in 1..Len(written) : written[k] = abspath(cwd, OrderPath(k))
       /\ i <= Len(out)
       /\ LastLines(i) = ProgressLines(i)
  /\ (fh # NoFile) <=> (pc = "dump")
  /\ pc = "dump" =>
       /\ i < Len(TableOrder(script))
       /\ fh = abspath(cwd, OrderPath(i + 1))
       /\ files[fh] = EmptyFile
  /\ ~Failed => \A p \in DOMAIN files : (files[p] \in {EmptyFile, PartialFile}) => (p = fh)

\* generate_deltarune_enemies.py has the file of its first ch2 record open,
\* after the files of all ch1 records
C16_Witness ==
  /\ pc = "dump"
  /\ script = "generate_deltarune_enemies"
  /\ i = Len(mem.ch1_enemies)
  /\ fh = abspath(cwd, generate_enemy_json_filepath(mem.ch2_enemies[1], output_dir_enemies))
  /\ Len(written) = i
  /\ LastLines(i) = ProgressLines(i)

----------------------------------------------------------------------------
Running == pc \in {"import", "main", "loop", "dump", "print"}
Stopped == pc \in {"done", "aborted"}

\* C17: every run stops: a process that is running reaches the end of main()
\* or an error.  When main() has returned it has written every record of the
\* table exactly once and its summary line is the last line printed; a
\* process stops otherwise only by a file-system error, at the first one.
\* Within a call of main() no path is written twice and the loop only moves
\* forward, one record at a time.
C17_Terminates ==
  /\ Running ~> Stopped
  /\ [](pc = "done" =>
          /\ ~Failed
          /\ Len(written) = NumCalls
          /\ i = NumCalls
          /\ out[Len(out)] = SummaryLine(script, mem))
  /\ [](Failed <=> pc = "aborted")
  /\ [](Cardinality(WrittenSet) = Len(written))
  /\ [][(InLoop /\ InLoop') => (i' = i \/ (i' = i + 1 /\ pc = "print"))]_vars

\* a run has ended after its last record, and a run has ended by an error
C17_Witness ==
  /\ pc = "done"
  /\ runs = 1
  /\ Len(written) = NumCalls
  /\ NumCalls = 25
  /\ out[Len(out)] = SummaryLine(script, mem)

----------------------------------------------------------------------------
\* C18 (as stated): at every point of a run every table is equal to its
\* source literal.
C18_TablesUnchanged == mem = Tables(script)

\* the ENEMIES record of generate_enemies.py at index k has been given the
\* default attackPatterns and is otherwise as its literal
HasDefaultsAdded(k) ==
  /\ ~Has(ENEMIES[k].data, "attackPatterns")
  /\ mem.ENEMIES[k].data = SetItem(ENEMIES[k].data, "attackPatterns", DefaultAttackPatterns)

\* C18 (amended): four scripts never modify their tables.  In
\* generate_enemies.py, create_enemy_json stores the default attackPatterns
\* into the table's own record when the record has none: every record it has
\* been called on is its literal with that one key added, every record it has
\* not yet been called on is equal to its literal, and no other key is added,
\* removed or changed.
C18_OnlyDefaultsAdded ==
  /\ script # "generate_enemies" => mem = Tables(script)
  /\ script = "generate_enemies" =>
       /\ DOMAIN mem = {"ENEMIES"}
       /\ Len(mem.ENEMIES) = Len(ENEMIES)
       /\ \A k \in 1..Len(ENEMIES) :
            /\ mem.ENEMIES[k].id = ENEMIES[k].id
            /\ mem.ENEMIES[k].data = ENEMIES[k].data \/ HasDefaultsAdded(k)
            /\ (pc \notin {"import", "main"} /\ (k <= i \/ (k = i + 1 /\ pc \in {"dump", "print"})))
                 => HasDefaultsAdded(k)
            /\ (runs = 0 /\ k > i + 1) => mem.ENEMIES[k].data = ENEMIES[k].data

\* generate_enemies.py has returned from main() with every record of ENEMIES changed
C18_Witness ==
  /\ script = "generate_enemies"
  /\ pc = "done"
  /\ mem # Tables(script)
  /\ \A k \in 1..Len(ENEMIES) : HasDefaultsAdded(k)

----------------------------------------------------------------------------
\* C19: a run changes the file system only at its own output: every file
\* that existed before still exists, every file that is not the output path
\* of a record of the script's table existed before and holds what it held
\* (also a .json file in the output directory), every path the run has
\* written exists, and the only directories added are the output directory
\* and its parents.
C19_Frame ==
  /\ \A p \in DOMAIN files0 : p \in DOMAIN files
  /\ \A p \in (DOMAIN files) \ OutputPaths(script, cwd) :
       p \in DOMAIN files0 /\ files[p] = files0[p]
  /\ \A k \in 1..Len(written) : written[k] \in DOMAIN files
  /\ Ancestors(cwd) \subseteq dirs
  /\ dirs \subseteq Ancestors(cwd) \cup Ancestors(abspath(cwd, OutputDir(script)))
  /\ dirs \cap DOMAIN files = {}

\* a run has replaced the older files of its records next to a file of the
\* same directory that belongs to no record
C19_Witness ==
  /\ RunComplete
  /\ Bystander(script, cwd) \in DOMAIN files
  /\ files[Bystander(script, cwd)] = StaleFile
  /\ dirname(Bystander(script, cwd)) = dirname(PathAt(1))
  /\ files0[PathAt(1)] = StaleFile
  /\ files[PathAt(1)] # StaleFile

----------------------------------------------------------------------------
\* C20: a file is written in place.  While json.dump runs, the open file is
\* the record's final path, it has been truncated and is observable as empty,
\* and no other path (no temporary file) has been created; when the write
\* fails, the file stays at that path empty or incomplete, it is not valid
\* JSON, what it held before the run is lost, and it is never put back.
C20_NotAtomic ==
  /\ [](pc = "dump" =>
          /\ fh = PathAt(i + 1)
          /\ fh \in DOMAIN files
          /\ files[fh] = EmptyFile
          /\ DOMAIN files \subseteq (DOMAIN files0) \cup OutputPaths(script, cwd))
  /\ [][(pc = "dump" /\ pc' = "aborted") =>
          /\ fh \in DOMAIN files'
          /\ files'[fh] \in {EmptyFile, PartialFile}
          /\ ~IsJson(files'[fh])
          /\ fh \in DOMAIN RunStartFiles => files'[fh] # RunStartFiles[fh]
          /\ DOMAIN files' = DOMAIN files]_vars
  /\ [][Failed => files' = files]_vars

\* a write over an older file has failed and left the file incomplete
C20_Witness ==
  /\ pc = "aborted"
  /\ i < NumCalls
  /\ PathAt(i + 1) \in DOMAIN files0
  /\ files0[PathAt(i + 1)] = StaleFile
  /\ files[PathAt(i + 1)] = PartialFile

----------------------------------------------------------------------------
(* Two scripts at work on one file system.  Here script is the set of the  *)
(* scripts that run, pc and i map each of them to its position and to the  *)
(* number of its calls that have returned, and err maps it to the error    *)
(* that ended it; a step is one script's module-level statements and the   *)
(* start of its main(), one whole call (makedirs, open, dump, close), or   *)
(* the end of its main().  The processes run in the repository root.       *)

ScriptPairs == {S \in SUBSET Scripts : Cardinality(S) = 2}

\* the path and the content of the k-th call of script s
PathOf(s, k) == abspath(REPO_ROOT, Filename(s, Calls(s, Tables(s))[k], Tables(s)))
ContentOf(s, k) == JsonDump(Payload(s, Calls(s, Tables(s))[k], Tables(s)))
CallCount(s) == Len(Calls(s, Tables(s)))

\* the repository directory alone, or with data/enemies already in it
TwoInit ==
  /\ script \in ScriptPairs
  /\ cwd = REPO_ROOT
  /\ environ \in Environments
  /\ dirs \in {Ancestors(REPO_ROOT), Ancestors(OUTPUT_DIR_enemies)}
  /\ files = [p \in {} |-> StaleFile]
  /\ files0 = files
  /\ mem = [s \in script |-> Tables(s)]
  /\ pc = [s \in script |-> "import"]
  /\ i = [s \in script |-> 0]
  /\ runs = 0
  /\ fh = NoFile
  /\ data = NoData
  /\ out = <<>>
  /\ written = <<>>
  /\ snapshot = [p \in {} |-> StaleFile]
  /\ err = [s \in script |-> NoError]

\* a script's statements up to its loop, with the os.makedirs it has there
TwoBegin(s) ==
  /\ pc[s] = "import"
  /\ dirs' = IF MakesDirsAtImport(s) \/ MakesDirsInMain(s)
               THEN makedirs(dirs, cwd, OutputDir(s))
               ELSE dirs
  /\ pc' = [pc EXCEPT ![s] = "loop"]
  /\ UNCHANGED <<script, cwd, environ, files, mem, i, runs, fh, data, out, written, files0, snapshot, err>>

\* one call of a script's function, from its os.makedirs (if it has one) to its print
TwoCall(s) ==
  /\ pc[s] = "loop"
  /\ i[s] < CallCount(s)
  /\ \E path \in {Filename(s, Calls(s, Tables(s))[i[s] + 1], Tables(s))} :
     \E ds \in {IF MakesDirsInCall(s) THEN makedirs(dirs, cwd, dirname(path)) ELSE dirs} :
        /\ CanOpen(ds, cwd, path)
        /\ dirs' = ds
        /\ files' = WriteFile(Truncate(files, abspath(cwd, path)), abspath(cwd, path),
                              ContentOf(s, i[s] + 1))
  /\ i' = [i EXCEPT ![s] = @ + 1]
  /\ UNCHANGED <<script, cwd, environ, mem, pc, runs, fh, data, out, written, files0, snapshot, err>>

\* open() finds no directory for the file: FileNotFoundError ends the script
TwoCallFails(s) ==
  /\ pc[s] = "loop"
  /\ i[s] < CallCount(s)
  /\ \E path \in {Filename(s, Calls(s, Tables(s))[i[s] + 1], Tables(s))} :
     \E ds \in {IF MakesDirsInCall(s) THEN makedirs(dirs, cwd, dirname(path)) ELSE dirs} :
        /\ ~CanOpen(ds, cwd, path)
        /\ dirs' = ds
  /\ pc' = [pc EXCEPT ![s] = "aborted"]
  /\ err' = [err EXCEPT ![s] = "FileNotFoundError"]
  /\ UNCHANGED <<script, cwd, environ, files, mem, i, runs, fh, data, out, written, files0, snapshot>>

\* the loop of a script is over and its main() returns
TwoEnd(s) ==
  /\ pc[s] = "loop"
  /\ i[s] = CallCount(s)
  /\ pc' = [pc EXCEPT ![s] = "done"]
  /\ UNCHANGED <<script, cwd, environ, dirs, files, mem, i, runs, fh, data, out, written, files0, snapshot, err>>

TwoNext ==
  \E s \in script :
    \/ TwoBegin(s)
    \/ TwoCall(s)
    \/ TwoCallFails(s)
    \/ TwoEnd(s)

TwoScripts == TwoInit /\ [][TwoNext]_vars

\* both scripts have stopped
TwoStopped == \A s \in script : pc[s] \in {"done", "aborted"}

\* the files the scripts of a set write, each with what its script writes
AllOutput(S) ==
  [p \in UNION {{PathOf(s, k) : k \in 1..CallCount(s)} : s \in S} |->
     LET w == CHOOSE sk \in {<<s, k>> : s \in S, k \in 1..25} :
                sk[2] <= CallCount(sk[1]) /\ PathOf(sk[1], sk[2]) = p
     IN ContentOf(w[1], w[2])]

\* no two calls, of one script or of two, write the same path
PathsDisjoint ==
  \A s, t \in Scripts : \A k \in 1..CallCount(s), l \in 1..CallCount(t) :
    (s # t \/ k # l) => PathOf(s, k) # PathOf(t, l)

\* C21 (as stated): the output paths of the five scripts, resolved in the
\* repository root, are pairwise disjoint, and two scripts run in any order
\* or interleaved leave the same file system: every file of both.
C21_OrderIndependent ==
  /\ PathsDisjoint
  /\ TwoStopped => files = AllOutput(script)

\* the paths are pairwise disjoint, no script ever changes a file of the
\* other, and where data/enemies exists at the start every interleaving
\* leaves every file of both scripts
C21_DisjointPaths ==
  /\ PathsDisjoint
  /\ \A s \in script : \A k \in 1..i[s] : files[PathOf(s, k)] = ContentOf(s, k)
  /\ (TwoStopped /\ OUTPUT_DIR_enemies \in dirs /\ "generate_enemies" \in script
        /\ \A s \in script : pc[s] = "done")
       => files = AllOutput(script)

----------------------------------------------------------------------------
(* One function called on arguments of its caller's choice.  Here script   *)
(* is the name of the function, mem the sequence of argument tuples of the *)
(* calls to make, snapshot the arguments as they were given, i the number  *)
(* of calls that have returned, data the values the calls gave to          *)
(* json.dump, and runs the number of list objects the calls have created.  *)
(* An argument of create_enemy_json carries with enemy_data the identity   *)
(* obj of the list under its "attackPatterns" (0 when it has none).        *)

\* how many records of ENEMIES the arguments are drawn from
MaxArgRecords == 4

\* the chapter arguments tried: the two main() passes and one it never passes
Chapters == {"ch1", "ch2", "ch3"}

\* an enemy_data without "attackPatterns", with an empty one, and with Toriel's
ArgVariants(enemy_data) ==
  {enemy_data,
   SetItem(enemy_data, "attackPatterns", PyList(<<>>)),
   SetItem(enemy_data, "attackPatterns", Get(BOSSES[1].data, "attackPatterns"))}

\* the list objects the caller made have the identities -1, -2, ...
CreateEnemyArgs(k) ==
  UNION {{[enemy_id |-> ENEMIES[n].id, enemy_data |-> d,
            obj |-> IF Has(d, "attackPatterns") THEN 0 - k ELSE 0] :
             d \in ArgVariants(ENEMIES[n].data)} : n \in 1..MaxArgRecords}

GenerateBossArgs == {[boss |-> bosses[n]] : n \in 1..Len(bosses)}

GenerateEnemyArgs ==
  {[enemy |-> e, chapter |-> c] :
     e \in {ch1_enemies[n] : n \in 1..Len(ch1_enemies)} \cup {ch2_enemies[n] : n \in 1..Len(ch2_enemies)},
     c \in Chapters}

\* evaluating a list display makes a new object: the n+1-st one
NewObject(n) == n + 1

FnInit ==
  /\ \/ /\ script = "create_enemy_json"
        /\ \E a \in CreateEnemyArgs(1), b \in CreateEnemyArgs(2) : mem = <<a, b>>
     \/ /\ script = "generate_enemy_json"
        /\ \E a \in GenerateEnemyArgs : mem = <<a>>
     \/ /\ script = "generate_boss_json"
        /\ \E a \in GenerateBossArgs : mem = <<a>>
  /\ snapshot = mem
  /\ i = 0
  /\ data = <<>>
  /\ runs = 0
  /\ cwd = REPO_ROOT
  /\ environ \in {e \in Environments : e.argv = <<>>}
  /\ dirs = {}
  /\ files = [p \in {} |-> StaleFile]
  /\ files0 = files
  /\ pc = "loop"
  /\ fh = NoFile
  /\ out = <<>>
  /\ written = <<>>
  /\ err = NoError

\* create_enemy_json(enemy_id, enemy_data), up to its json.dump
FnCreateEnemy ==
  /\ script = "create_enemy_json"
  /\ i < Len(mem)
  /\ \E arg \in {mem[i + 1]} :
       IF ~Has(arg.enemy_data, "attackPatterns")
         THEN /\ mem' = [mem EXCEPT ![i + 1] =
                           [arg EXCEPT !.enemy_data = create_enemy_json_data(arg.enemy_data),
                                       !.obj = NewObject(runs)]]
              /\ runs' = runs + 1
              /\ data' = Append(data, create_enemy_json_data(arg.enemy_data))
         ELSE /\ UNCHANGED <<mem, runs>>
              /\ data' = Append(data, create_enemy_json_data(arg.enemy_data))
  /\ i' = i + 1
  /\ UNCHANGED <<script, cwd, environ, dirs, files, pc, fh, out, written, files0, snapshot, err>>

\* generate_enemy_json(enemy, chapter, output_dir), up to its json.dump
FnGenerateEnemy ==
  /\ script = "generate_enemy_json"
  /\ i < Len(mem)
  /\ data' = Append(data, generate_enemy_json_data(mem[i + 1].enemy, mem[i + 1].chapter))
  /\ i' = i + 1
  /\ UNCHANGED <<script, cwd, environ, dirs, files, mem, pc, runs, fh, out, written, files0, snapshot, err>>

\* generate_boss_json(boss, output_dir), up to its json.dump
FnGenerateBoss ==
  /\ script = "generate_boss_json"
  /\ i < Len(mem)
  /\ data' = Append(data, generate_boss_json_data(mem[i + 1].boss))
  /\ i' = i + 1
  /\ UNCHANGED <<script, cwd, environ, dirs, files, mem, pc, runs, fh, out, written, files0, snapshot, err>>

FnNext == FnCreateEnemy \/ FnGenerateEnemy \/ FnGenerateBoss

FunctionCalls == FnInit /\ [][FnNext]_vars

\* the value with one pattern "Default Attack", duration 4000, and three
\* "projectiles" waves at 0, 1500, 2500 from top, left, right
IsDefaultAttack(patterns) ==
  /\ patterns.t = "list"
  /\ Len(patterns.v) = 1
  /\ Get(patterns.v[1], "name") = PyStr("Default Attack")
  /\ Get(patterns.v[1], "duration") = PyInt(4000)
  /\ WaveTimes(patterns.v[1]) = <<PyInt(0), PyInt(1500), PyInt(2500)>>
  /\ [w \in 1..3 |-> Get(Get(patterns.v[1], "waves").v[w], "type")]
       = <<PyStr("projectiles"), PyStr("projectiles"), PyStr("projectiles")>>
  /\ [w \in 1..3 |-> Get(Get(patterns.v[1], "waves").v[w], "side")]
       = <<PyStr("top"), PyStr("left"), PyStr("right")>>

\* C22: create_enemy_json adds "attackPatterns" exactly when the record has
\* no such key, and then the default pattern and nothing else; a record that
\* has the key, even with an empty list, is written and left as it is; and
\* two records that were given the default hold two different list objects.
C22_DefaultPattern ==
  script = "create_enemy_json" =>
    /\ \A k \in 1..i :
         LET given == snapshot[k].enemy_data
         IN IF Has(given, "attackPatterns")
              THEN /\ data[k] = given
                   /\ mem[k] = snapshot[k]
              ELSE /\ Keys(data[k]) = Keys(given) \cup {"attackPatterns"}
                   /\ \A key \in Keys(given) : Get(data[k], key) = Get(given, key)
                   /\ IsDefaultAttack(Get(data[k], "attackPatterns"))
                   /\ mem[k].enemy_data = data[k]
                   /\ mem[k].obj > 0
    /\ \A k, l \in 1..i : k # l => mem[k].obj # mem[l].obj

\* create_enemy_json has been called on a record with an empty
\* attackPatterns and on one without attackPatterns, and on two without
C22_Witness ==
  /\ script = "create_enemy_json"
  /\ i = 2
  /\ Has(snapshot[1].enemy_data, "attackPatterns")
  /\ Get(snapshot[1].enemy_data, "attackPatterns") = PyList(<<>>)
  /\ Get(data[1], "attackPatterns") = PyList(<<>>)
  /\ ~Has(snapshot[2].enemy_data, "attackPatterns")
  /\ IsDefaultAttack(Get(data[2], "attackPatterns"))

----------------------------------------------------------------------------
\* the path a per-record line names, "" for any other line
PathNamed(line) ==
  IF StartsWith(line, "Created ") THEN SubSeq(line, Len("Created ") + 1, Len(line))
  ELSE IF StartsWith(line, "Generated: ") THEN SubSeq(line, Len("Generated: ") + 1, Len(line))
  ELSE ""

IsRecordLine(line) == PathNamed(line) # ""

RECURSIVE SkipToDigit(_)
SkipToDigit(s) ==
  IF s = "" \/ IsDigit(CharAt(s, 1)) THEN s ELSE SkipToDigit(SubSeq(s, 2, Len(s)))

RECURSIVE LeadingDigits(_)
LeadingDigits(s) ==
  IF s = "" \/ ~IsDigit(CharAt(s, 1)) THEN "" ELSE SubSeq(s, 1, 1) \o LeadingDigits(SubSeq(s, 2, Len(s)))

\* the first number a line shows
PrintedCount(line) == StrToNat(LeadingDigits(SkipToDigit(line)), 0)

\* the number of lines one call of main() prints
RunLines == Len(HeaderLines(script, mem)) + NumCalls + 1

\* C23: the progress output matches the work done.  A per-record line is
\* printed only by the step that follows the closing of a record's file, and
\* it names the path just written; until then the file is written and closed
\* and its line is not printed.  When main() returns without an error, the
\* lines it printed hold exactly one per-record line for every record, in
\* order, each naming that record's file, and the count in the summary line
\* is the number of per-record lines and the number of files written.
C23_ProgressOutput ==
  /\ [](JustWritten =>
          /\ fh = NoFile
          /\ Len(written) = i + 1
          /\ LastPath \in DOMAIN files
          /\ IsJson(files[LastPath])
          /\ Len(out) % RunLines = Len(HeaderLines(script, mem)) + i)
  /\ [][(out' # out /\ out' # <<>> /\ IsRecordLine(out'[Len(out')])) =>
          /\ pc = "print"
          /\ Len(out') = Len(out) + 1
          /\ abspath(cwd, PathNamed(out'[Len(out')])) = LastPath
          /\ files' = files]_vars
  /\ [][pc = "print" => (Len(out') = Len(out) + 1 /\ IsRecordLine(out'[Len(out')]))]_vars
  /\ [](RunComplete =>
          /\ Len(out) >= RunLines
          /\ Len(out) % RunLines = 0
          /\ LET lines == SelectSeq(LastLines(RunLines), IsRecordLine)
             IN /\ Len(lines) = NumCalls
                /\ \A k \in 1..NumCalls : abspath(cwd, PathNamed(lines[k])) = PathAt(k)
                /\ \A k \in 1..NumCalls : written[k] = PathAt(k)
                /\ Cardinality(WrittenSet) = NumCalls
                /\ Len(written) = NumCalls
                /\ ~IsRecordLine(out[Len(out)])
                /\ PrintedCount(out[Len(out)]) = Len(lines)
                /\ PrintedCount(out[Len(out)]) = Cardinality(WrittenSet))

\* generate_deltarune_enemies.py has returned from main(): its summary line
\* shows 12 and it has written 12 files
C23_Witness ==
  /\ RunComplete
  /\ script = "generate_deltarune_enemies"
  /\ PrintedCount(out[Len(out)]) = 12
  /\ Cardinality(WrittenSet) = 12
  /\ Len(SelectSeq(LastLines(RunLines), IsRecordLine)) = 12

----------------------------------------------------------------------------
\* checkText begins with "ATK <a> DEF <d>" for the record's attack a and
\* defense d, and no further digit follows
AgreesWithStats(rec) ==
  LET text == Get(rec, "checkText").v
      head == "ATK " \o IntToStr(Get(rec, "attack").v) \o " DEF " \o IntToStr(Get(rec, "defense").v)
  IN /\ StartsWith(text, head)
     /\ Len(text) > Len(head) => ~IsDigit(CharAt(text, Len(head) + 1))

\* the records whose literal checkText shows other numbers than their fields:
\* froggit (attack 5, defense 0), napstablook (10, 255), asriel (10, 9999)
FlavourChecks ==
  [froggit |-> "ATK 4 DEF 1\n", napstablook |-> "ATK 10 DEF -40\n", asriel |-> "ATK ~ DEF ~\n"]

\* C24 (as stated): in every file of every script, checkText begins with
\* "ATK <a> DEF <d>" for the attack a and defense d of the same record.
C24_CheckTextAgrees == JustWritten => AgreesWithStats(LastDecoded)

\* C24: in every file checkText is a string; generate_deltarune_enemies.py
\* computes it from the attack and defense it writes; the other scripts
\* write the table's literal as it is, and the literal begins with
\* "ATK <a> DEF <d>" for the record's own attack and defense in every file
\* but three: froggit.json shows "ATK 4 DEF 1", napstablook.json
\* "ATK 10 DEF -40" and asriel.json "ATK (infinity sign) DEF (infinity sign)".
C24_CheckTextLiteral ==
  JustWritten =>
    LET rec == LastDecoded
    IN /\ Has(rec, "checkText")
       /\ Get(rec, "checkText").t = "str"
       /\ script = "generate_deltarune_enemies" =>
            /\ AgreesWithStats(rec)
            /\ Get(rec, "attack") = Get(LiteralAt(i + 1), "attack")
            /\ Get(rec, "defense") = Get(LiteralAt(i + 1), "defense")
       /\ script # "generate_deltarune_enemies" =>
            Get(rec, "checkText") = Get(LiteralAt(i + 1), "checkText")
       /\ IF Stem(LastPath) \in DOMAIN FlavourChecks /\ script \in UndertaleScripts
            THEN /\ StartsWith(Get(rec, "checkText").v, FlavourChecks[Stem(LastPath)])
                 /\ ~AgreesWithStats(rec)
            ELSE AgreesWithStats(rec)

\* froggit.json has been written with attack 5, defense 0 and "ATK 4 DEF 1"
C24_Witness ==
  /\ JustWritten
  /\ script = "generate_enemies"
  /\ Stem(LastPath) = "froggit"
  /\ Get(LastDecoded, "attack") = PyInt(5)
  /\ Get(LastDecoded, "defense") = PyInt(0)
  /\ StartsWith(Get(LastDecoded, "checkText").v, "ATK 4 DEF 1")

----------------------------------------------------------------------------
OutputKeys ==
  {"name", "hp", "attack", "defense", "gold", "exp", "spareThreshold",
   "dialogue", "checkText", "sprites", "acts", "attackPatterns"}

\* what a file holding the value v decodes to
Reloaded(v) == JsonLoad(JsonDump(v))

\* C25: for every enemy e of the two tables and every chapter c,
\* generate_enemy_json writes a record with exactly the twelve output keys;
\* name, hp, attack, defense, dialogue and acts are those of e; gold is 10,
\* exp 15 and spareThreshold 100; sprites.idle is in the Ch1 folder exactly
\* when c is "ch1" and in the Ch2 folder for every other c; "folder" is not
\* written; and attackPatterns is one pattern "Default Attack" of duration
\* 4000 with waves at 0 and 1500.
C25_DerivedEnemyFields ==
  (script = "generate_enemy_json" /\ i = 1) =>
    LET e == snapshot[1].enemy
        c == snapshot[1].chapter
        rec == Reloaded(data[1])
        idle == Get(Get(rec, "sprites"), "idle")
        patterns == Get(rec, "attackPatterns")
    IN /\ Keys(rec) = OutputKeys
       /\ \A key \in {"name", "hp", "attack", "defense", "dialogue", "acts"} :
            Get(rec, key) = Get(e, key)
       /\ Get(rec, "gold") = PyInt(10)
       /\ Get(rec, "exp") = PyInt(15)
       /\ Get(rec, "spareThreshold") = PyInt(100)
       /\ Keys(Get(rec, "sprites")) = {"idle"}
       /\ idle = PyStr("Deltarune Sprites/Characters/Enemies/"
                       \o (IF c = "ch1" THEN "Ch1" ELSE "Ch2")
                       \o "/" \o Get(e, "folder").v \o "/idle_0.png")
       /\ Has(e, "folder")
       /\ ~Has(rec, "folder")
       /\ patterns.t = "list"
       /\ Len(patterns.v) = 1
       /\ Get(patterns.v[1], "name") = PyStr("Default Attack")
       /\ Get(patterns.v[1], "duration") = PyInt(4000)
       /\ WaveTimes(patterns.v[1]) = <<PyInt(0), PyInt(1500)>>
       /\ mem = snapshot

\* generate_enemy_json has been called with a chapter that is neither "ch1"
\* nor "ch2" and has put the sprite in the Ch2 folder
C25_Witness ==
  /\ script = "generate_enemy_json"
  /\ i = 1
  /\ snapshot[1].chapter = "ch3"
  /\ StartsWith(Get(Get(Reloaded(data[1]), "sprites"), "idle").v,
                "Deltarune Sprites/Characters/Enemies/Ch2/")

----------------------------------------------------------------------------
\* C26: for every boss b of the table, generate_boss_json writes a record
\* with exactly the twelve output keys; gold, exp and spareThreshold are 0;
\* sprites.idle is "Deltarune Sprites/Characters/Bosses/<chapter>/<folder>/idle_0.png"
\* for b's chapter and folder; name, hp, attack, defense, dialogue,
\* checkText, acts and attackPatterns are those of b; and "chapter" and
\* "folder" are not written.
C26_DerivedBossFields ==
  (script = "generate_boss_json" /\ i = 1) =>
    LET b == snapshot[1].boss
        rec == Reloaded(data[1])
    IN /\ Keys(rec) = OutputKeys
       /\ Get(rec, "gold") = PyInt(0)
       /\ Get(rec, "exp") = PyInt(0)
       /\ Get(rec, "spareThreshold") = PyInt(0)
       /\ Get(rec, "sprites") =
            PyDict([idle |-> PyStr("Deltarune Sprites/Characters/Bosses/" \o Get(b, "chapter").v
                                   \o "/" \o Get(b, "folder").v \o "/idle_0.png")])
       /\ \A key \in OutputKeys \ {"gold", "exp", "spareThreshold", "sprites"} :
            Has(b, key) /\ Get(rec, key) = Get(b, key)
       /\ Has(b, "chapter") /\ ~Has(rec, "chapter")
       /\ Has(b, "folder") /\ ~Has(rec, "folder")
       /\ mem = snapshot

\* generate_boss_json has been called on the table's second boss
C26_Witness ==
  /\ script = "generate_boss_json"
  /\ i = 1
  /\ snapshot[1].boss = bosses[2]
  /\ Get(Reloaded(data[1]), "name") = Get(bosses[2], "name")
  /\ Get(Reloaded(data[1]), "gold") = PyInt(0)

----------------------------------------------------------------------------
\* the waves of a pattern are a non-empty list whose integer times increase
WavesInTimeOrder(pattern) ==
  LET waves == Get(pattern, "waves")
  IN /\ Has(pattern, "waves")
     /\ waves.t = "list"
     /\ Len(waves.v) >= 1
     /\ \A w \in 1..Len(waves.v) : Has(waves.v[w], "time") /\ Get(waves.v[w], "time").t = "int"
     /\ \A w \in 1..(Len(waves.v) - 1) : Get(waves.v[w], "time").v < Get(waves.v[w + 1], "time").v

\* C27: in every file of every script, every attack pattern has at least one
\* wave, and the times of its waves strictly increase along the list.
C27_WavesInTimeOrder ==
  JustWritten =>
    LET patterns == Get(LastDecoded, "attackPatterns")
    IN /\ patterns.t = "list"
       /\ \A n \in 1..Len(patterns.v) : WavesInTimeOrder(patterns.v[n])

\* a file of generate_enemies.py has been written with the default pattern,
\* whose three waves are at 0, 1500 and 2500
C27_Witness ==
  /\ JustWritten
  /\ script = "generate_enemies"
  /\ Len(Get(LastDecoded, "attackPatterns").v) = 1
  /\ WaveTimes(Get(LastDecoded, "attackPatterns").v[1]) = <<PyInt(0), PyInt(1500), PyInt(2500)>>

----------------------------------------------------------------------------
\* an act with a name and an effect; "Check" has nothing more to show, every
\* other act has a text and an integer mercyIncrease from 0 to 100
IsActRecord(act) ==
  /\ act.t = "dict"
  /\ Has(act, "name")
  /\ Has(act, "effect")
  /\ IF Get(act, "name") = PyStr("Check")
       THEN ~Has(act, "text") /\ ~Has(act, "mercyIncrease")
       ELSE /\ Has(act, "text")
            /\ Get(act, "text").t = "str"
            /\ Has(act, "mercyIncrease")
            /\ Get(act, "mercyIncrease").t = "int"
            /\ Get(act, "mercyIncrease").v >= 0
            /\ Get(act, "mercyIncrease").v <= 100

RaisesMercy(act) == Has(act, "mercyIncrease") /\ Get(act, "mercyIncrease").v > 0

\* C28: in every file of every script, every act has a name and an effect,
\* the "Check" act has neither text nor mercyIncrease, every other act has a
\* text string and an integer mercyIncrease from 0 to 100, and a record with
\* a spareThreshold above 0 has an act whose mercyIncrease is above 0.
C28_ActRecords ==
  JustWritten =>
    LET rec == LastDecoded
        acts == Get(rec, "acts")
    IN /\ acts.t = "list"
       /\ \A n \in 1..Len(acts.v) : IsActRecord(acts.v[n])
       /\ Get(rec, "spareThreshold").v > 0 => \E n \in 1..Len(acts.v) : RaisesMercy(acts.v[n])

\* a file with spareThreshold 100 has been written, with a Check act and an
\* act that raises mercy
C28_Witness ==
  /\ JustWritten
  /\ Get(LastDecoded, "spareThreshold") = PyInt(100)
  /\ \E n \in 1..Len(Get(LastDecoded, "acts").v) :
       Get(Get(LastDecoded, "acts").v[n], "name") = PyStr("Check")
  /\ \E n \in 1..Len(Get(LastDecoded, "acts").v) : RaisesMercy(Get(LastDecoded, "acts").v[n])
=============================================================================
